---- MODULE Spec2Model ----
(***************************************************************************)
(* A model of the PacmanEvolution decision engine: the grid world state    *)
(* (pacman/gamestate.py), the graph searches of ass2.py over the search    *)
(* representations of pacman/search.py, and the adversarial searches of    *)
(* ass4.py.                                                                *)
(***************************************************************************)
EXTENDS Integers, Sequences, FiniteSets, TLC

VARIABLES rep, srch, game, call, adv

vars == <<rep, srch, game, call, adv>>

(***************************************************************************)
(* Bounds of the model.  A layout is a grid of MaxX by MaxY inner cells    *)
(* enclosed by a border of walls, with at most MaxWalls inner walls.       *)
(***************************************************************************)
MaxX == 3
MaxY == 2
MaxWalls == 2
HeavyCost == 4

(***************************************************************************)
(* util.Vector and util.Move                                               *)
(***************************************************************************)
Vector(x, y) == <<x, y>>

VAdd(a, b) == Vector(a[1] + b[1], a[2] + b[2])

VSub(a, b) == Vector(a[1] - b[1], a[2] - b[2])

Abs(n) == IF n < 0 THEN -n ELSE n

\* tuple comparison of two Vectors (NamedTuple ordering)
VecLess(a, b) == a[1] < b[1] \/ (a[1] = b[1] /\ a[2] < b[2])

\* the members of the enumeration, in definition order
Move == <<"up", "down", "right", "left", "stop">>

MoveSet == {Move[i] : i \in 1..Len(Move)}

vector(m) ==
  CASE m = "up" -> Vector(0, 1)
    [] m = "down" -> Vector(0, -1)
    [] m = "right" -> Vector(1, 0)
    [] m = "left" -> Vector(-1, 0)
    [] m = "stop" -> Vector(0, 0)

\* zero-based index of a move in the enumeration
index(m) == (CHOOSE i \in 1..Len(Move) : Move[i] = m) - 1

by_index(i) == Move[i + 1]

opposite(m) ==
  IF m = "stop" THEN "stop"
  ELSE by_index(index(m) + 1 - 2 * (index(m) % 2))

no_stop == SelectSeq(Move, LAMBDA m : m # "stop")

\* Move.__lt__
MoveLess(m, n) == VecLess(vector(m), vector(n))

manhattan_distance(v1, v2) == Abs(v1[1] - v2[1]) + Abs(v1[2] - v2[2])

(***************************************************************************)
(* array.Array: a grid indexed by Vector.  A lookup outside the grid       *)
(* gives None, which is false in a condition.                              *)
(***************************************************************************)
Coords == (0..(MaxX + 1)) \X (0..(MaxY + 1))

Border == {c \in Coords : c[1] \in {0, MaxX + 1} \/ c[2] \in {0, MaxY + 1}}

Inner == Coords \ Border

contains(arr, v) == v \in DOMAIN arr

\* IndicatorArray.__getitem__ used as a condition
IndicatorGet(ind, v) == IF contains(ind, v) THEN ind[v] ELSE FALSE

(***************************************************************************)
(* search.PositionSearchRepresentation                                     *)
(***************************************************************************)
is_goal(r, state) == state = r.goal

\* successors that leaves out the test of the wall
successorsNoWallTest(r, state) ==
  [i \in 1..Len(no_stop) |->
     [state |-> VAdd(state, vector(no_stop[i])),
      actions |-> <<no_stop[i]>>,
      cost |-> IF contains(r.cost_fn, VAdd(state, vector(no_stop[i])))
               THEN r.cost_fn[VAdd(state, vector(no_stop[i]))] ELSE 1]]

\* one candidate successor per move of no_stop, in order; walls filtered out
successors(r, state) ==
  LET moves == SelectSeq(no_stop,
                 LAMBDA m : ~IndicatorGet(r.walls, VAdd(state, vector(m))))
  IN [i \in 1..Len(moves) |->
        [state |-> VAdd(state, vector(moves[i])),
         actions |-> <<moves[i]>>,
         cost |-> r.cost_fn[VAdd(state, vector(moves[i]))]]]

(***************************************************************************)
(* ass2.CrossroadSearchRepresentation: a PositionSearchRepresentation      *)
(* whose successors follow a corridor to its end.  A call of successors is *)
(* a record: pc, the state, the first moves the for loop has still to      *)
(* take, position and path of the corridor followed, and the successors    *)
(* appended.  The path of a corridor is followed for MaxCorridor moves;    *)
(* the corridors that end are shorter, none passes a cell twice.           *)
(***************************************************************************)
MaxCorridor == 8

\* CrossroadSearchRepresentation.legal_moves
crossroad_legal_moves(r, position) ==
  SelectSeq(no_stop,
            LAMBDA m : ~IndicatorGet(r.walls, VAdd(position, vector(m))))

\* [move for move in self.legal_moves(position) if move != path[-1].opposite]
next_moves(r, position, path) ==
  SelectSeq(crossroad_legal_moves(r, position),
            LAMBDA m : m # opposite(path[Len(path)]))

\* successors up to its for loop
crossroad_enter(r, state) ==
  [pc |-> "for", state |-> state, moves |-> crossroad_legal_moves(r, state),
   position |-> state, path |-> <<>>, successors |-> <<>>]

\* a corridor loop that goes on whatever the moves open
crossroad_stepOnward(r, c) ==
  IF c.pc = "for"
  THEN IF c.moves = <<>>
       THEN [c EXCEPT !.pc = "done"]
       ELSE [c EXCEPT !.pc = "while", !.moves = Tail(@),
                      !.position = VAdd(c.state, vector(Head(c.moves))),
                      !.path = <<Head(c.moves)>>]
  ELSE LET next == next_moves(r, c.position, c.path)
       IN IF Len(next) >= 1
          THEN [c EXCEPT !.position = VAdd(@, vector(next[1])),
                         !.path = Append(@, next[1])]
          ELSE [c EXCEPT !.pc = "for",
                         !.successors =
                           Append(@, [state |-> c.position,
                                      actions |-> c.path,
                                      cost |-> Len(c.path)])]

\* one step of successors: the next first move of the for loop, or one
\* test of the while loop with its body or with the append that follows it
crossroad_step(r, c) ==
  IF c.pc = "for"
  THEN IF c.moves = <<>>
       THEN [c EXCEPT !.pc = "done"]
       ELSE [c EXCEPT !.pc = "while", !.moves = Tail(@),
                      !.position = VAdd(c.state, vector(Head(c.moves))),
                      !.path = <<Head(c.moves)>>]
  ELSE LET next == next_moves(r, c.position, c.path)
       IN IF Len(next) = 1
          THEN [c EXCEPT !.position = VAdd(@, vector(next[1])),
                         !.path = Append(@, next[1])]
          ELSE [c EXCEPT !.pc = "for",
                         !.successors =
                           Append(@, [state |-> c.position,
                                      actions |-> c.path,
                                      cost |-> Len(c.path)])]

\* the call has returned, or follows a corridor of MaxCorridor moves
crossroad_halted(c) ==
  c.pc = "done" \/ (c.pc = "while" /\ Len(c.path) >= MaxCorridor)

RECURSIVE crossroad_run(_, _)
crossroad_run(r, c) ==
  IF crossroad_halted(c) THEN c ELSE crossroad_run(r, crossroad_step(r, c))

\* CrossroadSearchRepresentation.successors, where it returns
crossroad_successors(r, state) ==
  crossroad_run(r, crossroad_enter(r, state)).successors

\* representation.successors(state): the method of the class of r
successors_of(r, state) ==
  IF "crossroad" \in DOMAIN r THEN crossroad_successors(r, state)
  ELSE successors(r, state)

\* search.null and search.manhattan
null(state, r) == 0

manhattan(state, r) == manhattan_distance(state, r.goal)

heuristic(h, state, r) ==
  IF h = "manhattan" THEN manhattan(state, r) ELSE null(state, r)

(***************************************************************************)
(* The frontiers of ass2.py.  A frontier is the sequence of the nodes put  *)
(* and not yet taken, in the order they were put; a node is the search     *)
(* node (state, path, cost) with the priority and the serial number it was *)
(* put with.                                                               *)
(***************************************************************************)
RECURSIVE PathLess(_, _)
\* list comparison of two lists of Moves
PathLess(p, q) ==
  IF p = <<>> THEN q # <<>>
  ELSE IF q = <<>> THEN FALSE
  ELSE IF Head(p) = Head(q) THEN PathLess(Tail(p), Tail(q))
  ELSE MoveLess(Head(p), Head(q))

\* comparison of the tuples (cost, (state, path, cost)) uniformcost puts
TupleLess(a, b) ==
  \/ a.prio < b.prio
  \/ /\ a.prio = b.prio
     /\ \/ VecLess(a.state, b.state)
        \/ /\ a.state = b.state
           /\ \/ PathLess(a.path, b.path)
              \/ (a.path = b.path /\ a.cost < b.cost)

\* queue.LifoQueue.get: the node put last
LifoGet(f) == Len(f)

\* a first-in-first-out queue that gives the node put last
FifoGetLast(f) == Len(f)

\* queue.Queue.get: the node put first
FifoGet(f) == 1

\* a priority queue that ignores the priorities
PriorityGetFirst(f) == 1

\* queue.PriorityQueue.get on the tuples of uniformcost: the least tuple
PriorityGet(f) ==
  CHOOSE i \in 1..Len(f) : \A j \in 1..Len(f) : ~TupleLess(f[j], f[i])

\* a function queue that ignores the priorities and gives the node put last
PriorityFunctionGetLast(f) == Len(f)

\* PriorityFunctionQueue.get: the least (priority, serial number)
PriorityFunctionGet(f) ==
  CHOOSE i \in 1..Len(f) :
    \A j \in 1..Len(f) :
      j # i => (f[i].prio < f[j].prio
                \/ (f[i].prio = f[j].prio /\ f[i].id < f[j].id))

Get(method, f) ==
  CASE method = "depthfirst" -> LifoGet(f)
    [] method = "breadthfirst" -> FifoGet(f)
    [] method = "uniformcost" -> PriorityGet(f)
    [] method = "astar" -> PriorityFunctionGet(f)

Remove(f, i) == [k \in 1..(Len(f) - 1) |-> IF k < i THEN f[k] ELSE f[k + 1]]

\* a priority that subtracts the cost of the path from the estimate
PriorityMinusCost(method, h, r, state, cost) ==
  CASE method = "uniformcost" -> cost
    [] method = "astar" -> heuristic(h, state, r) - cost
    [] OTHER -> 0

\* the priority a node is put with
Priority(method, h, r, state, cost) ==
  CASE method = "uniformcost" -> cost
    [] method = "astar" -> heuristic(h, state, r) + cost
    [] OTHER -> 0

Node(method, h, r, state, path, cost, id) ==
  [state |-> state, path |-> path, cost |-> cost,
   prio |-> Priority(method, h, r, state, cost), id |-> id]

\* the value of `result` while no search function has returned
NoResult == [found |-> FALSE, path |-> <<>>]

\* a failed search that returns the empty list of moves
ReturnEmptyPath == [found |-> TRUE, path |-> <<>>]

\* `return None`: the search has failed
ReturnNone == [found |-> FALSE, path |-> <<>>]

\* `return path`
ReturnPath(path) == [found |-> TRUE, path |-> path]

Idle ==
  [method |-> "none", heuristic |-> "null", frontier |-> <<>>,
   explored |-> {}, next_id |-> 0, pc |-> "idle", result |-> NoResult]

\* the statements of a search function before its while loop
Enter(r, method, h) ==
  [method |-> method, heuristic |-> h,
   frontier |-> <<Node(method, h, r, r.start, <<>>, 0, 0)>>,
   explored |-> {}, next_id |-> 1, pc |-> "loop", result |-> NoResult]

\* one test of the while condition and, when it holds, one pass of the body
LoopBody(r, s) ==
  IF s.frontier = <<>>
  THEN [s EXCEPT !.pc = "done", !.result = ReturnNone]
  ELSE
    LET i == Get(s.method, s.frontier)
        node == s.frontier[i]
        rest == Remove(s.frontier, i)
        explored == s.explored \cup {node.state}
        succ == SelectSeq(successors_of(r, node.state),
                          LAMBDA t : t.state \notin explored)
        put == [k \in 1..Len(succ) |->
                  Node(s.method, s.heuristic, r, succ[k].state,
                       node.path \o succ[k].actions,
                       node.cost + succ[k].cost, s.next_id + k - 1)]
    IN IF node.state \in s.explored
       THEN [s EXCEPT !.frontier = rest]
       ELSE IF is_goal(r, node.state)
       THEN [s EXCEPT !.frontier = rest,
                      !.explored = IF s.method = "astar" THEN @ ELSE explored,
                      !.pc = "done",
                      !.result = ReturnPath(node.path)]
       ELSE [s EXCEPT !.frontier = rest \o put,
                      !.explored = explored,
                      !.next_id = @ + Len(succ)]

RECURSIVE RunLoop(_, _)
RunLoop(r, s) == IF s.pc = "done" THEN s ELSE RunLoop(r, LoopBody(r, s))

depthfirst(r) == RunLoop(r, Enter(r, "depthfirst", "null")).result

breadthfirst(r) == RunLoop(r, Enter(r, "breadthfirst", "null")).result

uniformcost(r) == RunLoop(r, Enter(r, "uniformcost", "null")).result

astar(r, h) == RunLoop(r, Enter(r, "astar", h)).result

(***************************************************************************)
(* The inputs of a search: the layouts and the cost functions.             *)
(***************************************************************************)
WallSets == {Border \cup w : w \in {s \in SUBSET Inner : Cardinality(s) <= MaxWalls}}

Indicator(set) == [c \in Coords |-> c \in set]

\* lambda x: 1, the default cost function
UnitCost == [c \in Coords |-> 1]

\* the cost function of StayLeftSearchAgent
StayLeftCost == [c \in Coords |-> 2 ^ c[1]]

\* cost functions charging the cells of one row k and every other cell 1
RowCost(y, k) == [c \in Coords |-> IF c[2] = y THEN k ELSE 1]

CostFns ==
  {UnitCost, StayLeftCost}
    \cup {RowCost(y, k) : y \in 1..MaxY, k \in {0, HeavyCost}}

Methods == {"depthfirst", "breadthfirst", "uniformcost", "astar"}

Heuristics == {"null", "manhattan"}

\* PositionSearchRepresentation.__init__: start is pacman's cell, which is
\* no wall
Representations(goals, costs) ==
  {r \in {[start |-> s, goal |-> g, cost_fn |-> c, walls |-> Indicator(w)] :
            s \in Inner, g \in goals, c \in costs, w \in WallSets} :
     ~r.walls[r.start]}

\* the default value of the parameter `goal`
DefaultGoal == Vector(1, 1)

(***************************************************************************)
(* The search as a state machine: a call of a search function on the       *)
(* representation, then one pass of its loop at a time.                    *)
(***************************************************************************)
\* no game is played while a search runs
NoGame == [score |-> 0]

NoCall == [done |-> FALSE]

\* no adversarial agent is asked for a move
NoAgent == [kind |-> "none"]

Adjacent(w, c) ==
  {d \in {VAdd(c, vector(no_stop[i])) : i \in 1..Len(no_stop)} :
     d \in Coords /\ ~w[d]}

RECURSIVE Flood(_, _)
\* the cells that can be reached from the cells `seen`
Flood(w, seen) ==
  LET next == seen \cup UNION {Adjacent(w, c) : c \in seen}
  IN IF next = seen THEN seen ELSE Flood(w, next)

Reachable(r) == r.goal \in Flood(r.walls, {r.start})

\* the default goal and the opposite corner of the maze
CornerGoals == {DefaultGoal, Vector(MaxX, MaxY)}

\* the mazes whose walls separate the start from the goal, a free cell
InitBlocked ==
  /\ rep \in {r \in Representations(CornerGoals, {UnitCost}) :
               ~r.walls[r.goal] /\ ~Reachable(r)}
  /\ srch = Idle
  /\ game = NoGame
  /\ call = NoCall
  /\ adv = NoAgent

\* any goal, the default cost function
InitSearch ==
  /\ rep \in Representations(Inner, {UnitCost})
  /\ srch = Idle
  /\ game = NoGame
  /\ call = NoCall
  /\ adv = NoAgent

\* the default goal, any cost function
InitCost ==
  /\ rep \in Representations({DefaultGoal}, CostFns)
  /\ srch = Idle
  /\ game = NoGame
  /\ call = NoCall
  /\ adv = NoAgent

Call(method, h) ==
  /\ srch.pc = "idle"
  /\ method = "astar" \/ h = "null"
  /\ srch' = Enter(rep, method, h)
  /\ UNCHANGED <<rep, game, call, adv>>

Iterate ==
  /\ srch.pc = "loop"
  /\ srch' = LoopBody(rep, srch)
  /\ UNCHANGED <<rep, game, call, adv>>

NextSearch ==
  \/ \E method \in Methods, h \in Heuristics : Call(method, h)
  \/ Iterate

SpecSearch == InitSearch /\ [][NextSearch]_vars

\* a search function, once called, runs its loop until it returns
SpecBlocked == InitBlocked /\ [][NextSearch]_vars /\ WF_vars(Iterate)


CallCost(method) ==
  /\ method \in {"uniformcost", "astar"}
  /\ Call(method, "null")

NextCost ==
  \/ \E method \in Methods : CallCost(method)
  \/ Iterate

SpecCost == InitCost /\ [][NextCost]_vars

(***************************************************************************)
(* What the claims speak of: the graph of the maze, the distance and the   *)
(* least cost in it, and the replay of a list of moves.                    *)
(***************************************************************************)
RECURSIVE Layers(_, _, _, _)
Layers(w, seen, goal, n) ==
  IF goal \in seen THEN n
  ELSE Layers(w, seen \cup UNION {Adjacent(w, c) : c \in seen}, goal, n + 1)

\* the least number of moves from start to goal, for a reachable goal
Dist(r) == Layers(r.walls, {r.start}, r.goal, 0)

RECURSIVE Positions(_, _)
\* the cells a list of moves passes through after leaving cell c
Positions(c, path) ==
  IF path = <<>> THEN <<>>
  ELSE <<VAdd(c, vector(Head(path)))>>
         \o Positions(VAdd(c, vector(Head(path))), Tail(path))

EndOf(c, path) == IF path = <<>> THEN c ELSE Positions(c, path)[Len(path)]

WallFree(r, path) ==
  \A i \in 1..Len(path) :
    LET c == Positions(r.start, path)[i] IN c \in Coords /\ ~r.walls[c]

RECURSIVE SumCost(_, _)
SumCost(cost_fn, cells) ==
  IF cells = <<>> THEN 0 ELSE cost_fn[Head(cells)] + SumCost(cost_fn, Tail(cells))

\* the cost the successors of a path add up to
AccumulatedCost(r, path) == SumCost(r.cost_fn, Positions(r.start, path))

Least(costs) == CHOOSE a \in costs : \A b \in costs : a <= b

RECURSIVE Relax(_, _)
\* d[c] is the least cost found so far of a path from start to cell c, or -1
Relax(r, d) ==
  LET next ==
        [c \in Coords |->
           LET via == {d[e] + r.cost_fn[c] :
                         e \in {x \in Adjacent(r.walls, c) : d[x] >= 0}}
               all == via \cup (IF d[c] >= 0 THEN {d[c]} ELSE {})
           IN IF r.walls[c] \/ all = {} THEN -1 ELSE Least(all)]
  IN IF next = d THEN d ELSE Relax(r, next)

\* the least cost of a wall-free path from start to goal, for a reachable goal
LeastCost(r) == Relax(r, [c \in Coords |-> IF c = r.start THEN 0 ELSE -1])[r.goal]

Returned(method, h) ==
  srch.pc = "done" /\ srch.method = method /\ srch.heuristic = h

(***************************************************************************)
(* C1: with unit step costs, for a goal reachable from the start,          *)
(* breadthfirst returns a list of moves whose length is the least number   *)
(* of moves from start to goal.                                            *)
(***************************************************************************)
C1_BreadthFirstShortest ==
  (Returned("breadthfirst", "null") /\ Reachable(rep))
    => (srch.result.found /\ Len(srch.result.path) = Dist(rep))

C1_Witness ==
  /\ Returned("breadthfirst", "null")
  /\ srch.result.found
  /\ Len(srch.result.path) = Dist(rep)
  /\ Len(srch.result.path) > manhattan_distance(rep.start, rep.goal)

(***************************************************************************)
(* C2: for a reachable goal and a non-negative cost function, uniformcost  *)
(* returns a list of moves whose accumulated cost is the least cost of any *)
(* wall-free path from start to goal.                                      *)
(***************************************************************************)
C2_UniformCostOptimal ==
  (Returned("uniformcost", "null") /\ Reachable(rep))
    => (/\ srch.result.found
        /\ AccumulatedCost(rep, srch.result.path) = LeastCost(rep))

\* the cheapest path is not a shortest one
C2_Witness ==
  /\ Returned("uniformcost", "null")
  /\ srch.result.found
  /\ AccumulatedCost(rep, srch.result.path) = LeastCost(rep)
  /\ Len(srch.result.path) > Dist(rep)

(***************************************************************************)
(* C3: a list of moves returned by depthfirst, breadthfirst, uniformcost   *)
(* or astar, replayed from the start, never enters a wall and ends in a    *)
(* goal state.                                                             *)
(***************************************************************************)
C3_ReturnedPathValid ==
  (srch.pc = "done" /\ srch.result.found)
    => (/\ WallFree(rep, srch.result.path)
        /\ is_goal(rep, EndOf(rep.start, srch.result.path)))

C3_Witness ==
  /\ srch.pc = "done"
  /\ srch.method = "depthfirst"
  /\ srch.result.found
  /\ Len(srch.result.path) > Dist(rep)
  /\ WallFree(rep, srch.result.path)
  /\ EndOf(rep.start, srch.result.path) = rep.goal

(***************************************************************************)
(* C4: when walls separate the start from the goal, each search function   *)
(* that has been called ends its loop and returns None.                    *)
(***************************************************************************)
C4_UnreachableReturnsNone ==
  (srch.pc = "loop" /\ ~Reachable(rep))
    ~> (srch.pc = "done" /\ ~srch.result.found)

\* a search has given up on a goal that is a free cell, after expanding
\* more than one cell
C4_Witness ==
  /\ srch.pc = "done"
  /\ ~Reachable(rep)
  /\ ~rep.walls[rep.goal]
  /\ ~srch.result.found
  /\ Cardinality(srch.explored) > 1

(***************************************************************************)
(* C5: with unit step costs and a reachable goal, astar with the manhattan *)
(* heuristic returns a path of the cost of the path uniformcost returns,   *)
(* which is the least cost.                                                *)
(***************************************************************************)
C5_AstarManhattanOptimal ==
  (Returned("astar", "manhattan") /\ Reachable(rep))
    => LET u == uniformcost(rep)
           cost == AccumulatedCost(rep, srch.result.path)
       IN /\ srch.result.found
          /\ u.found
          /\ cost = AccumulatedCost(rep, u.path)
          /\ cost = LeastCost(rep)

\* the heuristic underestimates: the path found goes around a wall
C5_Witness ==
  /\ Returned("astar", "manhattan")
  /\ srch.result.found
  /\ Len(srch.result.path) > manhattan_distance(rep.start, rep.goal)
  /\ AccumulatedCost(rep, srch.result.path)
       = AccumulatedCost(rep, uniformcost(rep).path)

(***************************************************************************)
(* C6, as claimed: astar with the null heuristic returns what uniformcost  *)
(* returns on the same representation, the identical list of moves or None *)
(* for both.                                                               *)
(***************************************************************************)
C6_AstarNullSameResult ==
  Returned("astar", "null") => srch.result = uniformcost(rep)

(***************************************************************************)
(* C6, amended: astar with the null heuristic returns None exactly when    *)
(* uniformcost does, and otherwise a list of moves of the same accumulated *)
(* cost.                                                                   *)
(***************************************************************************)
C6_AstarNullSameCost ==
  Returned("astar", "null")
    => LET u == uniformcost(rep)
       IN /\ srch.result.found = u.found
          /\ AccumulatedCost(rep, srch.result.path)
               = AccumulatedCost(rep, u.path)

\* two different optimal paths
C6_Witness ==
  /\ Returned("astar", "null")
  /\ srch.result.found
  /\ uniformcost(rep).found
  /\ srch.result.path # uniformcost(rep).path
  /\ AccumulatedCost(rep, srch.result.path)
       = AccumulatedCost(rep, uniformcost(rep).path)

(***************************************************************************)
(* gamestate.Gamestate.  A game state is a record of the fields of the     *)
(* object; the lists indexed by agent id are functions over the ids,       *)
(* pacman being agent PACMAN_ID and the ghosts the ids after it.           *)
(***************************************************************************)
PACMAN_ID == 0

SCARED_TIME == 40

SCORE_GET_DOT == 10

SCORE_GET_ALL_DOTS == 500

SCORE_GET_PELLET == 5

SCORE_GET_GHOST == 200

SCORE_TICK_PENALTY == -1

SCORE_DIE_PENALTY == -500

\* the location of an agent that is not in play
None == <<>>

\* `move` when an agent gave no move
NoMove == "none"

AgentIds(gs) == DOMAIN gs.agents

GhostIds(gs) == AgentIds(gs) \ {PACMAN_ID}

pacman(gs) == gs.agents[PACMAN_ID]

walls(gs) == [c \in Coords |-> gs.statics[c] = "wall"]

dots(gs) == [c \in Coords |-> gs.statics[c] = "dot"]

pellets(gs) == [c \in Coords |-> gs.statics[c] = "pellet"]

\* dots.list()
dots_list(gs) == {c \in Coords : gs.statics[c] = "dot"}

\* self.ghosts.index(vector) + 1: the first ghost of the list on the cell
ghosts_index(gs, v) ==
  CHOOSE g \in GhostIds(gs) :
    gs.agents[g] = v /\ \A h \in GhostIds(gs) : gs.agents[h] = v => g <= h

kill(gs, agent_id) ==
  IF agent_id = PACMAN_ID
  THEN [gs EXCEPT !.agents[agent_id] = None]
  ELSE [gs EXCEPT !.agents[agent_id] = gs.starts[agent_id],
                  !.timers[agent_id] = 0]

\* _resolve_encounter
resolve_encounter(gs, ghost_id) ==
  IF gs.timers[ghost_id] # 0
  THEN [kill(gs, ghost_id) EXCEPT !.score = @ + SCORE_GET_GHOST]
  ELSE [kill(gs, PACMAN_ID) EXCEPT !.score = @ + SCORE_DIE_PENALTY]

\* the call returns normally
Returns(gs) == [state |-> gs, raised |-> FALSE]

\* the call raises RuntimeError and leaves the object as it is then
Raises(gs) == [state |-> gs, raised |-> TRUE]

\* a move of pacman that adds the bonus for all the dots with every dot
apply_move_pacmanBonus(gs, new_vector) ==
  LET met == IF \E g \in GhostIds(gs) : gs.agents[g] = new_vector
             THEN resolve_encounter(gs, ghosts_index(gs, new_vector))
             ELSE gs
      dot == IF IndicatorGet(dots(met), new_vector)
             THEN [met EXCEPT !.statics[new_vector] = "empty",
                              !.score = @ + SCORE_GET_DOT + SCORE_GET_ALL_DOTS]
             ELSE met
  IN IF IndicatorGet(pellets(dot), new_vector)
     THEN [dot EXCEPT !.statics[new_vector] = "empty",
                      !.score = @ + SCORE_GET_PELLET,
                      !.timers = [i \in AgentIds(gs) |->
                                    IF i = PACMAN_ID THEN @[i]
                                    ELSE SCARED_TIME]]
     ELSE dot

\* the part of apply_move that is for pacman, after the test of the wall
apply_move_pacman(gs, new_vector) ==
  LET met == IF \E g \in GhostIds(gs) : gs.agents[g] = new_vector
             THEN resolve_encounter(gs, ghosts_index(gs, new_vector))
             ELSE gs
      eaten == [met EXCEPT !.statics[new_vector] = "empty",
                           !.score = @ + SCORE_GET_DOT]
      dot == IF IndicatorGet(dots(met), new_vector)
             THEN IF dots_list(eaten) = {}
                  THEN [eaten EXCEPT !.score = @ + SCORE_GET_ALL_DOTS]
                  ELSE eaten
             ELSE met
  IN IF IndicatorGet(pellets(dot), new_vector)
     THEN [dot EXCEPT !.statics[new_vector] = "empty",
                      !.score = @ + SCORE_GET_PELLET,
                      !.timers = [i \in AgentIds(gs) |->
                                    IF i = PACMAN_ID THEN @[i]
                                    ELSE SCARED_TIME]]
     ELSE dot

\* an apply_move that tests the wall before it changes the object
apply_moveTestFirst(gs, agent_id, given) ==
  IF gs.agents[agent_id] = None THEN Returns(gs)
  ELSE
    LET move == IF given = NoMove THEN "stop" ELSE given
        new_vector == VAdd(gs.agents[agent_id], vector(move))
        moved == [gs EXCEPT !.facings[agent_id] = move,
                            !.agents[agent_id] = new_vector,
                            !.timers[agent_id] = IF @ # 0 THEN @ - 1 ELSE @,
                            !.score = IF agent_id = PACMAN_ID
                                      THEN @ + SCORE_TICK_PENALTY ELSE @]
    IN IF IndicatorGet(walls(gs), new_vector)
       THEN Raises(gs)
       ELSE IF agent_id = PACMAN_ID
       THEN Returns(apply_move_pacman(moved, new_vector))
       ELSE IF new_vector = pacman(moved)
       THEN Returns(resolve_encounter(moved, agent_id))
       ELSE Returns(moved)

\* the value of the call and the state it leaves the object in
apply_move(gs, agent_id, given) ==
  IF gs.agents[agent_id] = None THEN Returns(gs)
  ELSE
    LET move == IF given = NoMove THEN "stop" ELSE given
        new_vector == VAdd(gs.agents[agent_id], vector(move))
        moved == [gs EXCEPT !.facings[agent_id] = move,
                            !.agents[agent_id] = new_vector,
                            !.timers[agent_id] = IF @ # 0 THEN @ - 1 ELSE @,
                            !.score = IF agent_id = PACMAN_ID
                                      THEN @ + SCORE_TICK_PENALTY ELSE @]
    IN IF IndicatorGet(walls(moved), new_vector)
       THEN Raises(IF agent_id = PACMAN_ID
                   THEN [moved EXCEPT !.score = @ + SCORE_DIE_PENALTY]
                   ELSE moved)
       ELSE IF agent_id = PACMAN_ID
       THEN Returns(apply_move_pacman(moved, new_vector))
       ELSE IF new_vector = pacman(moved)
       THEN Returns(resolve_encounter(moved, agent_id))
       ELSE Returns(moved)

\* a function that gives every move, also the moves into a wall
legal_moves_vectorAll(gs, v) == MoveSet

legal_moves_vector(gs, v) ==
  {m \in MoveSet : ~IndicatorGet(walls(gs), VAdd(v, vector(m)))}

legal_moves_id(gs, agent_id) == legal_moves_vector(gs, gs.agents[agent_id])

loss(gs) == pacman(gs) = None

\* a win that does not ask whether pacman is in play
winAnyway(gs) == dots_list(gs) = {}

win(gs) == ~loss(gs) /\ dots_list(gs) = {}

gameover(gs) == win(gs) \/ loss(gs)

\* a copy of the state with the move applied to it
successor(gs, agent_id, move) == apply_move(gs, agent_id, move).state

(***************************************************************************)
(* The adversarial agents of ass4.py.  An agent `a` has the fields depth   *)
(* and evaluate of agents.AdversarialAgent, and order: the order in which  *)
(* a set of moves is iterated, which is the same throughout a run.         *)
(***************************************************************************)
\* float('inf'): above every score of the model
Inf == 1000000

score_evaluate(gs) == gs.score

\* an evaluation function that also counts the distance to the first ghost
away_evaluate(gs) ==
  IF loss(gs) THEN gs.score
  ELSE gs.score + manhattan_distance(pacman(gs), gs.agents[1])

evaluate(a, gs) ==
  CASE a.evaluate = "score" -> score_evaluate(gs)
    [] a.evaluate = "away" -> away_evaluate(gs)

\* list(moves) for a set of moves
ListOf(a, moves) == SelectSeq(a.order, LAMBDA m : m \in moves)

MaxOf(x, y) == IF x >= y THEN x ELSE y

MinOf(x, y) == IF x <= y THEN x ELSE y

\* the value of a call that is made once: the element of a set of one element
The(S) == CHOOSE x \in S : TRUE

\* max(scores) and min(scores)
Maximum(scores) ==
  The({(CHOOSE x \in S : \A y \in S : x >= y) : S \in {scores}})

Minimum(scores) ==
  The({(CHOOSE x \in S : \A y \in S : x <= y) : S \in {scores}})

RECURSIVE minimax(_, _, _, _)
\* the score that MinimaxAgent.minimax returns
minimax(a, gs, depth, maximizer) ==
  IF depth = 0 \/ loss(gs) \/ win(gs) THEN evaluate(a, gs)
  ELSE IF maximizer
  THEN Maximum({minimax(a, s, depth, FALSE) :
                  s \in {successor(gs, 0, x) : x \in legal_moves_id(gs, 0)}})
  ELSE Minimum({minimax(a, s, depth - 1, TRUE) :
                  s \in {successor(gs, 1, x) : x \in legal_moves_id(gs, 1)}})

\* the moves that MinimaxAgent.minimax can return with best_score
minimax_moves(a, gs, depth, best_score) ==
  IF depth = 0 \/ loss(gs) \/ win(gs) THEN {"stop"}
  ELSE {x \in legal_moves_id(gs, 0) :
          \E s \in {successor(gs, 0, x)} :
            minimax(a, s, depth, FALSE) = best_score}

\* a test that prunes after the first move
cutoffAlways(alpha, beta) == TRUE

\* `if beta <= alpha: break`
cutoff(alpha, beta) == beta <= alpha

RECURSIVE alpha_beta(_, _, _, _, _, _)
RECURSIVE max_loop(_, _, _, _, _, _)
RECURSIVE min_loop(_, _, _, _, _, _)
\* one pass of the for loop of the maximizer: the variables alpha, beta,
\* best_score and best_action after the pass for `move`, v being the
\* variables before it; broke tells that the pass ended in `break`
max_pass(a, gs, depth, move, v) ==
  LET after(score) ==
        LET best == IF score > v.best_score THEN score ELSE v.best_score
            action == IF score > v.best_score THEN move ELSE v.best_action
        IN [alpha |-> MaxOf(best, v.alpha), beta |-> v.beta,
            best_score |-> best, best_action |-> action,
            broke |-> cutoff(MaxOf(best, v.alpha), v.beta)]
  IN The({after(score) :
            score \in {alpha_beta(a, s, depth, FALSE, v.alpha, v.beta).score :
                         s \in {successor(gs, 0, move)}}})

\* one pass of the for loop of the minimizer
min_pass(a, gs, depth, move, v) ==
  LET after(score) ==
        LET best == IF score < v.best_score THEN score ELSE v.best_score
            action == IF score < v.best_score THEN move ELSE v.best_action
        IN [alpha |-> v.alpha, beta |-> MinOf(best, v.beta),
            best_score |-> best, best_action |-> action,
            broke |-> cutoff(v.alpha, MinOf(best, v.beta))]
  IN The({after(score) :
            score \in {alpha_beta(a, s, depth - 1, TRUE, v.alpha, v.beta).score :
                         s \in {successor(gs, 1, move)}}})

\* the for loop of the maximizer, about to take move i of legal_actions
max_loop(a, gs, depth, legal_actions, i, v) ==
  IF i > Len(legal_actions) \/ v.broke
  THEN [score |-> v.best_score, move |-> v.best_action]
  ELSE The({max_loop(a, gs, depth, legal_actions, i + 1, w) :
              w \in {max_pass(a, gs, depth, legal_actions[i], v)}})

\* the for loop of the minimizer
min_loop(a, gs, depth, legal_actions, i, v) ==
  IF i > Len(legal_actions) \/ v.broke
  THEN [score |-> v.best_score, move |-> v.best_action]
  ELSE The({min_loop(a, gs, depth, legal_actions, i + 1, w) :
              w \in {min_pass(a, gs, depth, legal_actions[i], v)}})

\* AlphabetaAgent.alpha_beta
alpha_beta(a, gs, depth, maximizer, alpha, beta) ==
  IF depth = 0 \/ loss(gs) \/ win(gs)
  THEN [score |-> evaluate(a, gs), move |-> "stop"]
  ELSE IF maximizer
  THEN The({max_loop(a, gs, depth, legal_actions, 1, v) :
              legal_actions \in {ListOf(a, legal_moves_id(gs, 0))},
              v \in {[alpha |-> alpha, beta |-> beta, best_score |-> -Inf,
                      best_action |-> "stop", broke |-> FALSE]}})
  ELSE The({min_loop(a, gs, depth, legal_actions, 1, v) :
              legal_actions \in {ListOf(a, legal_moves_id(gs, 1))},
              v \in {[alpha |-> alpha, beta |-> beta, best_score |-> Inf,
                      best_action |-> "stop", broke |-> FALSE]}})

\* a decrement of the depth at every move of the last ghost
decrementEveryMove(depth, has_decremented) == depth - 1

\* `if not has_decremented: depth -= 1`
decrement(depth, has_decremented) ==
  IF ~has_decremented THEN depth - 1 ELSE depth

RECURSIVE alpha_score(_, _, _, _, _, _)
RECURSIVE alpha_loop(_, _, _, _, _, _, _, _)
RECURSIVE beta_score(_, _, _, _, _, _)
RECURSIVE beta_loop(_, _, _, _, _, _, _)
\* one pass of the for loop of alpha_score: the variables score, alpha and
\* best_move after the pass for `move`, v being the variables before it;
\* returned tells that the pass ended in `return score, move`
alpha_pass(a, state, beta, agent_number, depth, move, v) ==
  LET below(succ_gstate) ==
        IF win(succ_gstate) \/ loss(succ_gstate) \/ depth = 0
        THEN evaluate(a, succ_gstate)
        ELSE beta_score(a, succ_gstate, v.alpha, beta, agent_number + 1, depth)
      after(score) ==
        IF score > beta
        THEN [score |-> score, alpha |-> v.alpha, best_move |-> move,
              returned |-> TRUE]
        ELSE [score |-> score, alpha |-> MaxOf(v.alpha, score),
              best_move |-> IF score # v.score THEN move ELSE v.best_move,
              returned |-> FALSE]
  IN The({after(MaxOf(v.score, x)) :
            x \in {below(s) : s \in {successor(state, agent_number, move)}}})

\* the for loop of alpha_score, about to take move i of moves
alpha_loop(a, state, moves, i, beta, agent_number, depth, v) ==
  IF i > Len(moves) \/ v.returned
  THEN [score |-> v.score, move |-> v.best_move]
  ELSE The({alpha_loop(a, state, moves, i + 1, beta, agent_number, depth, w) :
              w \in {alpha_pass(a, state, beta, agent_number, depth, moves[i], v)}})

\* MultiAlphabetaAgent.alpha_score
alpha_score(a, state, alpha, beta, agent_number, depth) ==
  IF win(state) \/ loss(state)
  THEN [score |-> evaluate(a, state), move |-> "none"]
  ELSE The({alpha_loop(a, state, moves, 1, beta, agent_number, depth,
                       [score |-> -Inf, alpha |-> alpha, best_move |-> moves[1],
                        returned |-> FALSE]) :
              moves \in {ListOf(a, legal_moves_id(state, agent_number))}})

\* one pass of the for loop of beta_score: the variables score, beta, depth
\* and has_decremented after the pass for `move`, v being the variables
\* before it; returned tells that the pass ended in `return score`
beta_pass(a, state, alpha, agent_number, move, v) ==
  LET last == agent_number = Cardinality(AgentIds(state)) - 1
      leaf(succ_gstate) ==
        v.depth = 0 \/ win(succ_gstate) \/ loss(succ_gstate)
      below(succ_gstate, depth) ==
        IF leaf(succ_gstate) THEN evaluate(a, succ_gstate)
        ELSE IF last
        THEN IF depth = 0 THEN evaluate(a, succ_gstate)
             ELSE alpha_score(a, succ_gstate, alpha, v.beta, 0, depth).score
        ELSE beta_score(a, succ_gstate, alpha, v.beta, agent_number + 1, depth)
      after(score, depth, has_decremented) ==
        [score |-> score,
         beta |-> IF score < alpha THEN v.beta ELSE MinOf(v.beta, score),
         depth |-> depth, has_decremented |-> has_decremented,
         returned |-> score < alpha]
      pass(succ_gstate) ==
        LET lowers == ~leaf(succ_gstate) /\ last
        IN The(UNION {{after(MinOf(v.score, x), depth,
                             v.has_decremented \/ lowers) :
                         x \in {below(succ_gstate, depth)}} :
                      depth \in {IF lowers
                                 THEN decrement(v.depth, v.has_decremented)
                                 ELSE v.depth}})
  IN The({pass(s) : s \in {successor(state, agent_number, move)}})

\* the for loop of beta_score, about to take move i of moves
beta_loop(a, state, moves, i, alpha, agent_number, v) ==
  IF i > Len(moves) \/ v.returned THEN v.score
  ELSE The({beta_loop(a, state, moves, i + 1, alpha, agent_number, w) :
              w \in {beta_pass(a, state, alpha, agent_number, moves[i], v)}})

\* MultiAlphabetaAgent.beta_score
beta_score(a, state, alpha, beta, agent_number, depth) ==
  IF win(state) \/ loss(state) THEN evaluate(a, state)
  ELSE The({beta_loop(a, state, moves, 1, alpha, agent_number, v) :
              moves \in {ListOf(a, legal_moves_id(state, agent_number))},
              v \in {[score |-> Inf, beta |-> beta, depth |-> depth,
                      has_decremented |-> FALSE, returned |-> FALSE]}})

(***************************************************************************)
(* The game states the calls are made on: states in the middle of a game   *)
(* with two ghosts.  The score and the turn counter are counted from the   *)
(* state on.                                                               *)
(***************************************************************************)
\* the inner walls of the layouts of the games
GameWallSets == {Border, Border \cup {Vector(2, 1)}}

\* the cells the agents start on, which Gamestate.__init__ clears
Starts == (0 :> Vector(1, 1)) @@ (1 :> Vector(MaxX, MaxY)) @@ (2 :> Vector(1, MaxY))

\* the cell of the pellet of a layout that has one
PelletCell == Vector(2, MaxY)

\* no dot is left, one is left, all are left
DotSets == {{}, {Vector(MaxX, 1)}, Inner}

PelletSets == {{}, {PelletCell}}

\* 0 for a ghost that is not scared; the scared ghosts were scared together
\* and a ghost moves before the ghosts after it
TimerValues == {0, 1, 2, SCARED_TIME}

Timers ==
  {t \in [{0, 1, 2} -> TimerValues] :
     /\ t[0] = 0
     /\ (t[1] # 0 /\ t[2] # 0) => (t[2] = t[1] \/ t[2] = t[1] + 1)}

Statics(w, dotset, pelletset) ==
  [c \in Coords |->
     IF c \in w THEN "wall"
     ELSE IF c \in pelletset THEN "pellet"
     ELSE IF c \in dotset THEN "dot"
     ELSE "empty"]

\* the cells that hold nothing: the start cells and the cell pacman is on
Cleared(agents, starts) == {starts[i] : i \in DOMAIN starts} \cup {agents[0]}

Snapshot(w, dotset, pelletset, agents, starts, timers) ==
  [statics |-> Statics(w, dotset \ Cleared(agents, starts),
                       pelletset \ Cleared(agents, starts)),
   agents |-> agents,
   starts |-> starts,
   facings |-> [i \in DOMAIN agents |-> "stop"],
   timers |-> timers,
   score |-> 0,
   tick |-> 0]

\* pacman and the first ghost anywhere, the second ghost on its start cell
\* or on the cell of the first; a ghost shares the cell of pacman only after
\* it was sent back to its start cell under pacman
Positions2(w) ==
  {a \in [{0, 1, 2} -> Inner \ w] :
     /\ a[2] \in {a[1], Starts[2]}
     /\ \A g \in {1, 2} : a[g] = a[0] => a[g] = Starts[g]}

SnapshotsOn(w) ==
  {Snapshot(w, d, p, a, Starts, t) :
     d \in DotSets, p \in PelletSets, a \in Positions2(w), t \in Timers}

\* the states of the games in the layout with the walls w
GameStates(w) ==
  {gs \in SnapshotsOn(w) :
     \A g \in {1, 2} : gs.agents[g] = gs.agents[0] => gs.timers[g] = 0}

\* no search runs while a game is played
NoRep == [walls |-> <<>>]

InitGame ==
  /\ game \in UNION {GameStates(w) : w \in GameWallSets}
  /\ call = [done |-> FALSE, pre |-> game, agent_id |-> PACMAN_ID,
             move |-> "stop", raised |-> FALSE]
  /\ rep = NoRep
  /\ srch = Idle
  /\ adv = NoAgent

\* one call of apply_move with a move that legal_moves_id gives
ApplyMove(agent_id, move) ==
  /\ ~call.done
  /\ agent_id \in AgentIds(game)
  /\ game.agents[agent_id] # None
  /\ move \in legal_moves_id(game, agent_id)
  /\ game' = apply_move(game, agent_id, move).state
  /\ call' = [done |-> TRUE, pre |-> game, agent_id |-> agent_id,
              move |-> move,
              raised |-> apply_move(game, agent_id, move).raised]
  /\ UNCHANGED <<rep, srch, adv>>

NextGame == \E agent_id \in {0, 1, 2}, move \in MoveSet : ApplyMove(agent_id, move)

SpecGame == InitGame /\ [][NextGame]_vars

(***************************************************************************)
(* The adversarial agents as a state machine: an agent of some depth and   *)
(* evaluation function is asked for its move in a state of a game with one *)
(* or two ghosts.                                                          *)
(***************************************************************************)
MaxDepth == 2

\* the game state without its last ghost
WithoutLast(gs) ==
  LET ids == {i \in AgentIds(gs) : i + 1 \in AgentIds(gs)}
  IN [gs EXCEPT !.agents = [i \in ids |-> @[i]],
                !.starts = [i \in ids |-> @[i]],
                !.facings = [i \in ids |-> @[i]],
                !.timers = [i \in ids |-> @[i]]]

\* states with dots left and pacman in the bottom row; both ghosts scared or
\* none
AdvStates2(w) ==
  {gs \in GameStates(w) :
     /\ dots_list(gs) # {}
     /\ Cardinality(dots_list(gs)) = 1 => \A c \in Inner : gs.statics[c] # "pellet"
     /\ pacman(gs)[2] = 1
     /\ gs.timers[2] = gs.timers[1]
     /\ gs.timers[1] \in {0, 2}}

\* the states with two ghosts and the same states with one ghost
AdvStates(w) == AdvStates2(w) \cup {WithoutLast(gs) : gs \in AdvStates2(w)}

\* the order of the enumeration and the opposite order
Orders == {Move, [i \in 1..Len(Move) |-> Move[Len(Move) + 1 - i]]}

Evaluators == {"score", "away"}

\* a state of a game in the layout without inner walls, and an agent
InitAdv ==
  /\ game \in AdvStates(Border)
  /\ adv \in {[kind |-> "none", depth |-> d, order |-> o, evaluate |-> e,
               score |-> 0, move |-> "stop"] :
                d \in 0..MaxDepth, o \in Orders, e \in Evaluators}
  /\ call = NoCall
  /\ rep = NoRep
  /\ srch = Idle

\* MinimaxAgent.move; the move is drawn among the best ones
MinimaxMove ==
  /\ adv.kind = "none"
  /\ \E best_score \in {minimax(adv, game, adv.depth, TRUE)} :
       \E best_move \in minimax_moves(adv, game, adv.depth, best_score) :
         adv' = [adv EXCEPT !.kind = "minimax", !.score = best_score,
                            !.move = best_move]
  /\ UNCHANGED <<rep, srch, game, call>>

\* AlphabetaAgent.move
AlphabetaMove ==
  /\ adv.kind = "none"
  /\ \E r \in {alpha_beta(adv, game, adv.depth, TRUE, -Inf, Inf)} :
       adv' = [adv EXCEPT !.kind = "alphabeta", !.score = r.score,
                           !.move = r.move]
  /\ UNCHANGED <<rep, srch, game, call>>

\* MultiAlphabetaAgent.move
MultiAlphabetaMove ==
  /\ adv.kind = "none"
  /\ \E r \in {alpha_score(adv, game, -Inf, Inf, 0, adv.depth)} :
       adv' = [adv EXCEPT !.kind = "multi", !.score = r.score,
                           !.move = r.move]
  /\ UNCHANGED <<rep, srch, game, call>>

NextAdv == MinimaxMove \/ AlphabetaMove \/ MultiAlphabetaMove

SpecAdv == InitAdv /\ [][NextAdv]_vars

(***************************************************************************)
(* What the claims about a call of apply_move speak of.                    *)
(***************************************************************************)
\* the cell the agent of the call moved to
Dest == VAdd(call.pre.agents[call.agent_id], vector(call.move))

\* the ghosts that stood on cell c before the call
GhostsOn(c) == {g \in GhostIds(call.pre) : call.pre.agents[g] = c}

\* the score pacman's move collected from the cell: dot, last dot, pellet
Collected(pre, post) ==
  LET c == VAdd(pacman(pre), vector(call.move))
  IN (IF pre.statics[c] = "dot" /\ post.statics[c] = "empty"
      THEN SCORE_GET_DOT
             + (IF dots_list(post) = {} THEN SCORE_GET_ALL_DOTS ELSE 0)
      ELSE 0)
     + (IF pre.statics[c] = "pellet" /\ post.statics[c] = "empty"
        THEN SCORE_GET_PELLET ELSE 0)

\* the change of the score that the encounter of a call made
EncounterScore(pre, post, agent_id) ==
  IF agent_id = PACMAN_ID
  THEN post.score - pre.score - SCORE_TICK_PENALTY - Collected(pre, post)
  ELSE post.score - pre.score

PacmanMovedOnto(g) ==
  /\ call.done
  /\ call.agent_id = PACMAN_ID
  /\ call.move # "stop"
  /\ GhostsOn(Dest) = {g}

(***************************************************************************)
(* C9: when pacman has moved onto the cell of a ghost next to it, the      *)
(* move of that ghost onto the cell of pacman, applied to the same state,  *)
(* resolves the encounter alike: the same side dies and the score changes  *)
(* by the same bonus or penalty, whatever the scared timer of the ghost.   *)
(***************************************************************************)
C9_EncounterSymmetric ==
  \A g \in {1, 2} :
    PacmanMovedOnto(g) =>
      LET back == successor(call.pre, g, opposite(call.move))
      IN /\ loss(game) = loss(back)
         /\ EncounterScore(call.pre, game, PACMAN_ID)
              = EncounterScore(call.pre, back, g)

(***************************************************************************)
(* C10: after a legal move of pacman onto a cell on which a ghost with     *)
(* scared timer 0 stood, pacman is absent and the score has the death      *)
(* penalty in it, also when a scared ghost stood on the cell too.          *)
(***************************************************************************)
C10_NonScaredGhostKills ==
  (/\ call.done
   /\ call.agent_id = PACMAN_ID
   /\ \E g \in GhostsOn(Dest) : call.pre.timers[g] = 0)
    => (/\ loss(game)
        /\ EncounterScore(call.pre, game, PACMAN_ID) = SCORE_DIE_PENALTY)

(***************************************************************************)
(* What the claims about the adversarial agents speak of.                  *)
(***************************************************************************)
RECURSIVE TreeValue(_, _, _, _)
\* the value of the game tree below state gs in which `agent` moves next and
\* `rounds` full rounds are left: pacman takes the greatest value, each ghost
\* in turn the least, a won or lost state is a leaf, and after the last
\* round the state is evaluated
TreeValue(a, gs, agent, rounds) ==
  IF win(gs) \/ loss(gs) \/ rounds = 0 THEN evaluate(a, gs)
  ELSE
    LET last == \A g \in AgentIds(gs) : g <= agent
        values(next, left) ==
          {TreeValue(a, successor(gs, agent, m), next, left) :
             m \in legal_moves_id(gs, agent)}
    IN IF agent = PACMAN_ID THEN Maximum(values(agent + 1, rounds))
       ELSE IF last THEN Minimum(values(PACMAN_ID, rounds - 1))
       ELSE Minimum(values(agent + 1, rounds))

\* the moves of pacman in the order the agent takes them
RootMoves == ListOf(adv, legal_moves_id(game, PACMAN_ID))

(***************************************************************************)
(* C7: for a state with a live first ghost, a depth >= 0 and either        *)
(* evaluation function, the score of alpha_beta(state, depth, True, -inf,  *)
(* +inf) is the score of minimax(state, depth, True).                      *)
(***************************************************************************)
C7_AlphabetaEqualsMinimax ==
  adv.kind = "alphabeta"
    => adv.score = minimax(adv, game, adv.depth, TRUE)

\* the subtree of the last move of pacman was cut off: searched with the
\* alpha the moves before it have reached, it gives another score than
\* minimax gives, and the score at the root is that of minimax
C7_Witness ==
  /\ adv.kind = "alphabeta"
  /\ adv.depth = MaxDepth
  /\ ~gameover(game)
  /\ Len(RootMoves) > 1
  /\ LET n == Len(RootMoves)
         alpha == Maximum({minimax(adv, successor(game, PACMAN_ID, RootMoves[i]),
                                   adv.depth, FALSE) : i \in 1..(n - 1)})
         below == successor(game, PACMAN_ID, RootMoves[n])
     IN alpha_beta(adv, below, adv.depth, FALSE, alpha, Inf).score
          # minimax(adv, below, adv.depth, FALSE)
  /\ adv.score = minimax(adv, game, adv.depth, TRUE)

(***************************************************************************)
(* C8: for a state with one or two live ghosts and a depth D >= 1, the     *)
(* score of alpha_score at the root is the value of the unpruned game tree *)
(* that is evaluated after exactly D full rounds.                          *)
(***************************************************************************)
C8_MultiEqualsTree ==
  (adv.kind = "multi" /\ adv.depth >= 1)
    => adv.score = TreeValue(adv, game, PACMAN_ID, adv.depth)

\* two ghosts, more than one round, and a tree whose value after D rounds
\* is not its value after D - 1 rounds
C8_Witness ==
  /\ adv.kind = "multi"
  /\ adv.depth = MaxDepth
  /\ Cardinality(GhostIds(game)) > 1
  /\ ~gameover(game)
  /\ adv.score = TreeValue(adv, game, PACMAN_ID, adv.depth)
  /\ adv.score # TreeValue(adv, game, PACMAN_ID, adv.depth - 1)

(***************************************************************************)
(* Two calls of apply_move in a row, on a game with one ghost that is      *)
(* scared and two cells away from pacman.                                  *)
(***************************************************************************)
\* the states with one ghost, scared, at manhattan distance 2 of pacman
MeetStates ==
  {gs \in {WithoutLast(s) : s \in GameStates(Border)} :
     /\ gs.timers[1] > 0
     /\ manhattan_distance(pacman(gs), gs.agents[1]) = 2}

InitMeet ==
  /\ game \in MeetStates
  /\ call = [n |-> 0, pre |-> game, mid |-> game, agent_id |-> PACMAN_ID,
             move |-> "stop"]
  /\ rep = NoRep
  /\ srch = Idle
  /\ adv = NoAgent

\* the next call of apply_move, with a move that legal_moves_id gives
MeetMove(agent_id, move) ==
  /\ call.n < 2
  /\ agent_id \in AgentIds(game)
  /\ game.agents[agent_id] # None
  /\ move \in legal_moves_id(game, agent_id)
  /\ game' = apply_move(game, agent_id, move).state
  /\ call' = [n |-> call.n + 1, pre |-> call.pre, mid |-> game,
              agent_id |-> agent_id, move |-> move]
  /\ UNCHANGED <<rep, srch, adv>>

NextMeet == \E agent_id \in {0, 1}, move \in MoveSet : MeetMove(agent_id, move)

SpecMeet == InitMeet /\ [][NextMeet]_vars

(***************************************************************************)
(* What the claim about the two calls speaks of.                           *)
(***************************************************************************)
\* the second call brought the mover onto the cell of the other agent, and
\* no cell of the way held a dot or a pellet
BroughtTogether ==
  /\ call.n = 2
  /\ call.mid.agents[0] # None
  /\ call.mid.agents[0] # call.mid.agents[1]
  /\ VAdd(call.mid.agents[call.agent_id], vector(call.move))
       = call.mid.agents[1 - call.agent_id]
  /\ call.pre.statics = call.mid.statics
  /\ call.mid.statics[call.mid.agents[1 - call.agent_id]] = "empty"

(***************************************************************************)
(* C11: from a state with one scared ghost two cells away from pacman, on  *)
(* cells without dots or pellets, after the two moves that bring them onto *)
(* the same cell pacman is alive, the ghost is on its start cell with      *)
(* timer 0, and the score has risen by exactly SCORE_GET_GHOST.            *)
(***************************************************************************)
C11_ScaredGhostKilled ==
  BroughtTogether =>
    /\ ~loss(game)
    /\ game.agents[1] = game.starts[1]
    /\ game.timers[1] = 0
    /\ game.score = call.pre.score + SCORE_GET_GHOST

(***************************************************************************)
(* A call of apply_move with any move, legal or not, or with no move.      *)
(***************************************************************************)
ApplyAny(agent_id, given) ==
  /\ ~call.done
  /\ agent_id \in AgentIds(game)
  /\ game' = apply_move(game, agent_id, given).state
  /\ call' = [done |-> TRUE, pre |-> game, agent_id |-> agent_id,
              move |-> given,
              raised |-> apply_move(game, agent_id, given).raised]
  /\ UNCHANGED <<rep, srch, adv>>

NextAny ==
  \E agent_id \in {0, 1, 2}, given \in MoveSet \cup {NoMove} :
    ApplyAny(agent_id, given)

SpecAny == InitGame /\ [][NextAny]_vars

\* the cell the call was to move the agent to
GivenDest ==
  VAdd(call.pre.agents[call.agent_id],
       vector(IF call.move = NoMove THEN "stop" ELSE call.move))

(***************************************************************************)
(* C12: a call of apply_move for a live agent whose destination cell is a  *)
(* wall ends in the error and not normally, and a call with a move that    *)
(* legal_moves_vector gives for the cell of the agent has no wall as its   *)
(* destination and does not end in the error.                              *)
(***************************************************************************)
C12_WallMoveRaises ==
  (call.done /\ call.pre.agents[call.agent_id] # None) =>
    /\ call.pre.statics[GivenDest] = "wall" => call.raised
    /\ call.move \in legal_moves_vector(call.pre,
                                        call.pre.agents[call.agent_id])
         => (call.pre.statics[GivenDest] # "wall" /\ ~call.raised)

\* a ghost was moved into a wall: the call raised and left it on the wall
C12_Witness ==
  /\ call.done
  /\ call.agent_id # PACMAN_ID
  /\ call.pre.statics[GivenDest] = "wall"
  /\ call.raised
  /\ game.agents[call.agent_id] = GivenDest

(***************************************************************************)
(* game.run_game: the agents prepare, then the main loop asks each agent   *)
(* that can move for its move and applies it, and ends the turn with       *)
(* tick().  An agent answers with any move or with none, in less or more   *)
(* than MOVE_WARNING seconds, or runs into its timeout.  `call` holds the  *)
(* parameter timeouts, the counter timeout_warnings and the position in    *)
(* run_game: pc, the index of the agent of the for loops, the number of    *)
(* iterations of the main loop begun, and whether the last step called     *)
(* apply_move and for which agent.  The test of the main loop is taken     *)
(* with the step before it.                                                *)
(***************************************************************************)
MAX_TICKS == 100

MAX_WARNINGS == 3

\* an agent that is moved whatever the state
can_moveAlways(gs, agent_id) == TRUE

can_move(gs, agent_id) ==
  /\ gs.agents[agent_id] # None
  /\ (gs.timers[agent_id] = 0 \/ gs.tick % 2 = 0)
  /\ ~gameover(gs)

destroy(gs, agent_id) ==
  [gs EXCEPT !.agents[agent_id] = None,
             !.score = IF agent_id = 0 THEN @ + SCORE_DIE_PENALTY ELSE @]

\* a tick that does not count the turn
tickStill(gs) == gs

tick(gs) ==
  IF gs.tick + 1 = MAX_TICKS
  THEN destroy([gs EXCEPT !.tick = @ + 1], PACMAN_ID)
  ELSE [gs EXCEPT !.tick = @ + 1]

\* the cells of the layouts of the runs that are no wall: a path from the
\* start cell of pacman to the start cell of the ghost
RunPath == <<Vector(1, 1), Vector(2, 1), Vector(3, 1), Vector(3, 2)>>

RunWalls == Coords \ {RunPath[i] : i \in 1..Len(RunPath)}

RunAgents == (0 :> RunPath[1]) @@ (1 :> RunPath[Len(RunPath)])

\* the layouts: what the two cells between the agents hold
RunLayouts ==
  {[dots |-> {RunPath[2], RunPath[3]}, pellets |-> {}],
   [dots |-> {RunPath[3]}, pellets |-> {RunPath[2]}],
   [dots |-> {RunPath[2]}, pellets |-> {RunPath[3]}]}

\* Gamestate.__init__ on a layout
Gamestate(w, dotset, pelletset, agents) ==
  Snapshot(w, dotset, pelletset, agents, agents, [i \in DOMAIN agents |-> 0])

\* the layout of the runs with timeouts: one dot next to pacman
TimeoutLayout == [dots |-> {RunPath[2]}, pellets |-> {}]

\* the games run: the parameters layout and timeouts of run_game
RunGames ==
  {[layout |-> l, timeouts |-> FALSE] : l \in RunLayouts}
    \cup {[layout |-> TimeoutLayout, timeouts |-> TRUE]}

InitRun ==
  /\ \E g \in RunGames :
       /\ game = Gamestate(RunWalls, g.layout.dots, g.layout.pellets, RunAgents)
       /\ call = [pc |-> "prepare", index |-> 0, iterations |-> 0,
                  applied |-> FALSE, agent_id |-> 0, timeouts |-> g.timeouts,
                  timeout_warnings |-> [i \in AgentIds(game) |-> 0]]
  /\ rep = NoRep
  /\ srch = Idle
  /\ adv = NoAgent

\* the last agent of all_agents
LastAgent(gs) == Cardinality(AgentIds(gs)) - 1

\* `while not gstate.gameover`: the position after the test in state gs
While(gs) ==
  IF gameover(gs)
  THEN [call EXCEPT !.pc = "done", !.index = 0, !.applied = FALSE,
                    !.agent_id = 0]
  ELSE [call EXCEPT !.pc = "for", !.index = 0, !.applied = FALSE,
                    !.agent_id = 0, !.iterations = @ + 1]

\* agent_prepare_timeout: the agent prepares in time or is destroyed;
\* without timeouts it prepares
Prepare(timeout) ==
  /\ call.pc = "prepare"
  /\ timeout => call.timeouts
  /\ game' = IF timeout THEN destroy(game, call.index) ELSE game
  /\ call' = IF call.index = LastAgent(game) THEN While(game')
             ELSE [call EXCEPT !.index = @ + 1]
  /\ UNCHANGED <<rep, srch, adv>>

\* how a call of agent.move ends: with a move in less than MOVE_WARNING
\* seconds, with a move in more, with TimeoutException and a measured time
\* of less than MOVE_WARNING seconds, or of more
Outcomes == {"fast", "slow", "timeout", "timeout_slow"}

\* agent_move_timeout: the move, the state and the counter it leaves
agent_move_timeout(gs, timeout_warnings, agent_id, given, outcome) ==
  LET timed_out == outcome \in {"timeout", "timeout_slow"}
      warned == outcome \in {"slow", "timeout_slow"}
      excepted == IF timed_out
                  THEN [state |-> destroy(gs, agent_id),
                        warnings |-> timeout_warnings[agent_id] + MAX_WARNINGS]
                  ELSE [state |-> gs, warnings |-> timeout_warnings[agent_id]]
      finally == IF warned
                 THEN [state |-> IF excepted.warnings + 1 >= MAX_WARNINGS
                                 THEN destroy(excepted.state, agent_id)
                                 ELSE excepted.state,
                       warnings |-> excepted.warnings + 1]
                 ELSE excepted
  IN [move |-> IF timed_out THEN NoMove ELSE given,
      state |-> finally.state,
      timeout_warnings |->
        [timeout_warnings EXCEPT ![agent_id] = finally.warnings]]

\* the body of the for loop for the agent call.index, whose call of
\* agent.move gives the move `given` and ends as `outcome` says
Turn(given, outcome) ==
  /\ call.pc = "for"
  /\ LET i == call.index
         to == IF i = LastAgent(game) THEN [pc |-> "tick", index |-> 0]
               ELSE [pc |-> "for", index |-> i + 1]
     IN IF gameover(game)
        THEN /\ given = NoMove /\ outcome = "fast"
             /\ game' = game
             /\ call' = [call EXCEPT !.pc = "tick", !.index = 0,
                                     !.applied = FALSE, !.agent_id = 0]
        ELSE IF can_move(game, i)
        THEN /\ outcome \in {"timeout", "timeout_slow"} => given = NoMove
             /\ outcome # "fast" => call.timeouts
             /\ \E t \in {IF call.timeouts
                           THEN agent_move_timeout(game, call.timeout_warnings,
                                                   i, given, outcome)
                           ELSE [move |-> given, state |-> game,
                                 timeout_warnings |-> call.timeout_warnings]} :
                \E r \in {apply_move(t.state, i, t.move)} :
                  /\ game' = r.state
                  /\ call' = [call EXCEPT
                                !.pc = IF r.raised THEN "raised" ELSE to.pc,
                                !.index = IF r.raised THEN i ELSE to.index,
                                !.applied = TRUE, !.agent_id = i,
                                !.timeout_warnings = t.timeout_warnings]
        ELSE /\ given = NoMove /\ outcome = "fast"
             /\ game' = game
             /\ call' = [call EXCEPT !.pc = to.pc, !.index = to.index,
                                     !.applied = FALSE, !.agent_id = 0]
  /\ UNCHANGED <<rep, srch, adv>>

\* gstate.tick() at the end of an iteration of the main loop, and the test
\* of the loop
Tick ==
  /\ call.pc = "tick"
  /\ game' = tick(game)
  /\ call' = While(game')
  /\ UNCHANGED <<rep, srch, adv>>

NextRun ==
  \/ \E timeout \in BOOLEAN : Prepare(timeout)
  \/ \E given \in MoveSet \cup {NoMove}, outcome \in Outcomes : Turn(given, outcome)
  \/ Tick

SpecRun == InitRun /\ [][NextRun]_vars

(***************************************************************************)
(* C13: a step of run_game calls apply_move for an agent only in a state   *)
(* in which the agent is alive, neither win nor loss holds, and the scared *)
(* timer of the agent is 0 or the tick counter is even; so a scared ghost  *)
(* is not moved on an odd tick and no agent is moved once the game is      *)
(* over.                                                                   *)
(***************************************************************************)
C13_MovedOnlyIfCanMove ==
  [][call'.applied =>
       /\ call.pc = "for"
       /\ call'.agent_id = call.index
       /\ game.agents[call.index] # None
       /\ ~win(game) /\ ~loss(game)
       /\ (game.timers[call.index] = 0 \/ game.tick % 2 = 0)]_vars

\* a scared ghost has been moved, on an even tick, and is still scared
C13_Witness ==
  /\ call.applied
  /\ call.agent_id = 1
  /\ game.agents[1] # None
  /\ game.timers[1] > 0
  /\ game.tick % 2 = 0

\* a run on the layout without a pellet
InitRunDots == InitRun /\ call.timeouts

\* run_game keeps taking steps while it has one to take
SpecRunFair == InitRunDots /\ [][NextRun]_vars /\ WF_vars(NextRun)

(***************************************************************************)
(* C14: tick() adds one to the turn counter and does not raise, and when   *)
(* the counter reaches MAX_TICKS pacman is out of play; the main loop of   *)
(* run_game begins at most MAX_TICKS iterations, and run_game comes to the *)
(* end of the loop (or ends in the error of a move into a wall) whatever   *)
(* the agents answer.                                                      *)
(***************************************************************************)
C14_LoopTerminates ==
  /\ [][call.pc = "tick" =>
          /\ game'.tick = game.tick + 1
          /\ call'.pc # "raised"
          /\ game'.tick = MAX_TICKS => loss(game')]_vars
  /\ [](call.iterations <= MAX_TICKS)
  /\ <>(call.pc \in {"done", "raised"})

\* the loop has ended by the last tick: pacman was in play until then
C14_Witness ==
  /\ call.pc = "done"
  /\ call.iterations = MAX_TICKS
  /\ game.tick = MAX_TICKS
  /\ game.score <= SCORE_DIE_PENALTY + MAX_TICKS * SCORE_TICK_PENALTY

(***************************************************************************)
(* C16: in every state of a run, win holds iff pacman is in play and no    *)
(* cell holds a dot, loss holds iff pacman is out of play, win and loss do *)
(* not hold together, and gameover holds iff win or loss holds.            *)
(***************************************************************************)
C16_WinLossGameover ==
  LET present == game.agents[PACMAN_ID] # None
      nodots == \A c \in Coords : game.statics[c] # "dot"
  IN /\ win(game) <=> (present /\ nodots)
     /\ loss(game) <=> ~present
     /\ ~(win(game) /\ loss(game))
     /\ gameover(game) <=> (win(game) \/ loss(game))

\* a move of pacman has removed the last dot and left pacman in play: the
\* game is won, not lost, and over
C16_Witness ==
  /\ call.applied
  /\ call.agent_id = PACMAN_ID
  /\ game.agents[PACMAN_ID] # None
  /\ \A c \in Coords : game.statics[c] # "dot"
  /\ win(game) /\ ~loss(game) /\ gameover(game)

(***************************************************************************)
(* Several calls of apply_move in a row, each with a move that             *)
(* legal_moves_id gives, on a game of pacman and one ghost.                *)
(***************************************************************************)
MaxMoves == 3

InitDots ==
  /\ game \in {gs \in {WithoutLast(s) : s \in GameStates(Border)} :
                 dots_list(gs) # {}}
  /\ call = [n |-> 0, pre |-> game, agent_id |-> PACMAN_ID, move |-> "stop"]
  /\ rep = NoRep
  /\ srch = Idle
  /\ adv = NoAgent

DotsMove(agent_id, move) ==
  /\ call.n < MaxMoves
  /\ agent_id \in AgentIds(game)
  /\ game.agents[agent_id] # None
  /\ move \in legal_moves_id(game, agent_id)
  /\ game' = apply_move(game, agent_id, move).state
  /\ call' = [n |-> call.n + 1, pre |-> game, agent_id |-> agent_id,
              move |-> move]
  /\ UNCHANGED <<rep, srch, adv>>

NextDots == \E agent_id \in {0, 1}, move \in MoveSet : DotsMove(agent_id, move)

SpecDots == InitDots /\ [][NextDots]_vars

\* the cell the last call moved its agent to
LastDest == VAdd(call.pre.agents[call.agent_id], vector(call.move))

\* what the last call added to the score apart from the bonus for all the
\* dots: the outcome of a meeting of pacman and the ghost and, in a move of
\* pacman, the penalty of the turn and the dot or the pellet of the cell
LastGain ==
  (IF call.pre.agents[PACMAN_ID] = None THEN 0
   ELSE IF game.agents[PACMAN_ID] = None THEN SCORE_DIE_PENALTY
   ELSE IF LastDest = call.pre.agents[1 - call.agent_id] THEN SCORE_GET_GHOST
   ELSE 0)
  + (IF call.agent_id # PACMAN_ID THEN 0
     ELSE SCORE_TICK_PENALTY
          + (IF call.pre.statics[LastDest] = "dot" THEN SCORE_GET_DOT ELSE 0)
          + (IF call.pre.statics[LastDest] = "pellet" THEN SCORE_GET_PELLET
             ELSE 0))

\* the last call added the bonus for all the dots to the score
LastBonus == game.score = call.pre.score + LastGain + SCORE_GET_ALL_DOTS

(***************************************************************************)
(* C17: when a move of pacman ends on a cell with a dot, the cell is empty *)
(* after it and the score has gained SCORE_GET_DOT, and the bonus          *)
(* SCORE_GET_ALL_DOTS is added in that move iff no cell holds a dot after  *)
(* it; a call of apply_move adds the bonus only if it removes the last     *)
(* dot, and no call brings back a dot, so the bonus is added at most once. *)
(***************************************************************************)
C17_DotAndBonus ==
  call.n > 0 =>
    /\ dots_list(game) \subseteq dots_list(call.pre)
    /\ LastBonus <=> (dots_list(call.pre) # {} /\ dots_list(game) = {})
    /\ (call.agent_id = PACMAN_ID /\ call.pre.statics[LastDest] = "dot") =>
         /\ game.statics[LastDest] = "empty"
         /\ dots_list(game) = dots_list(call.pre) \ {LastDest}
         /\ game.score = call.pre.score + LastGain
                         + (IF dots_list(game) = {} THEN SCORE_GET_ALL_DOTS
                            ELSE 0)

\* pacman ate the last dot before the last call, and the last call moved
\* pacman again: the score holds the bonus once
C17_Witness ==
  /\ call.n = MaxMoves
  /\ call.agent_id = PACMAN_ID
  /\ dots_list(call.pre) = {}
  /\ game.agents[PACMAN_ID] # None
  /\ game.score >= SCORE_GET_ALL_DOTS + SCORE_GET_DOT + MaxMoves * SCORE_TICK_PENALTY
  /\ game.score < 2 * SCORE_GET_ALL_DOTS

(***************************************************************************)
(* Gamestate objects and the lists they refer to.  A Gamestate holds       *)
(* references to the lists agents, starts, facings and _timers and to the  *)
(* columns of _statics, and the values score and _tick; heap gives the     *)
(* content of every list.  A method that changes a Gamestate in place      *)
(* writes to the lists the object refers to.                               *)
(***************************************************************************)
Columns == 0..(MaxX + 1)

Rows == 0..(MaxY + 1)

\* the lists of one Gamestate
ObjectSize == Cardinality(Columns) + Cardinality({"agents", "starts", "facings", "_timers"})

\* a Gamestate whose lists are the lists from `next` on
ObjectAt(next, score, ticks) ==
  [agents |-> next, starts |-> next + 1, facings |-> next + 2,
   timers |-> next + 3,
   statics |-> [x \in Columns |-> next + 4 + x],
   score |-> score, tick |-> ticks]

\* the state the object o shows
View(heap, o) ==
  [statics |-> [c \in Coords |-> heap[o.statics[c[1]]][c[2]]],
   agents |-> heap[o.agents],
   starts |-> heap[o.starts],
   facings |-> heap[o.facings],
   timers |-> heap[o.timers],
   score |-> o.score,
   tick |-> o.tick]

\* the heap after a method has brought the object o to the state gs
Store(heap, o, gs) ==
  [a \in DOMAIN heap |->
     IF a = o.agents THEN gs.agents
     ELSE IF a = o.starts THEN gs.starts
     ELSE IF a = o.facings THEN gs.facings
     ELSE IF a = o.timers THEN gs.timers
     ELSE IF \E x \in Columns : o.statics[x] = a
     THEN LET x == CHOOSE x \in Columns : o.statics[x] = a
          IN [y \in Rows |-> gs.statics[Vector(x, y)]]
     ELSE heap[a]]

\* the heap with the lists of a new Gamestate that shows gs
Allocate(heap, next, gs) ==
  LET o == ObjectAt(next, gs.score, gs.tick)
  IN Store(heap @@ [a \in next..(next + ObjectSize - 1) |-> <<>>], o, gs)

\* a copy that refers to the list of agents of the receiver
copyShared(h, o) ==
  [heap |-> Allocate(h.heap, h.next, View(h.heap, o)),
   next |-> h.next + ObjectSize,
   obj |-> [ObjectAt(h.next, o.score, o.tick) EXCEPT !.agents = o.agents]]

\* Gamestate.copy: a new Gamestate with copies of the lists of o
copy(h, o) ==
  [heap |-> Allocate(h.heap, h.next, View(h.heap, o)),
   next |-> h.next + ObjectSize,
   obj |-> ObjectAt(h.next, o.score, o.tick)]

\* a method has brought the object o to the state gs
Mutated(h, o, gs) ==
  [heap |-> Store(h.heap, o, gs),
   next |-> h.next,
   obj |-> [o EXCEPT !.score = gs.score, !.tick = gs.tick]]

\* Gamestate.successor: the copy, with the move applied to it
successor_object(h, o, agent_id, move) ==
  The({Mutated(c, c.obj, apply_move(View(c.heap, c.obj), agent_id, move).state) :
         c \in {copy(h, o)}})

\* Gamestate.successors: the successors for moves[i], moves[i + 1], ...,
\* after the successors in `done`
RECURSIVE successors_objects(_, _, _, _, _, _)
successors_objects(h, o, agent_id, moves, i, done) ==
  IF i > Len(moves) THEN [heap |-> h.heap, next |-> h.next, objs |-> done]
  ELSE The({successors_objects(s, o, agent_id, moves, i + 1,
                               Append(done, s.obj)) :
              s \in {successor_object(h, o, agent_id, moves[i])}})

\* the games the copies are made of
CopyStates ==
  {gs \in MeetStates : dots_list(gs) # {} /\ gs.timers[1] = SCARED_TIME}

MaxOps == 2

\* call.self is the Gamestate the copies are made of and game the state it
\* shows, call.copies are the Gamestates the methods returned
InitCopy ==
  /\ game \in CopyStates
  /\ call = [heap |-> Allocate(<<>>, 1, game), next |-> 1 + ObjectSize,
             self |-> ObjectAt(1, game.score, game.tick),
             copies |-> <<>>, pre |-> game, n |-> 0]
  /\ rep = NoRep
  /\ srch = Idle
  /\ adv = NoAgent

\* the call record after a method returned the objects objs
Returned_objects(h, objs) ==
  [call EXCEPT !.heap = h.heap, !.next = h.next, !.copies = objs]

Copy ==
  /\ call.copies = <<>>
  /\ \E c \in {copy(call, call.self)} :
       /\ call' = Returned_objects(c, <<c.obj>>)
       /\ game' = View(c.heap, call.self)
  /\ UNCHANGED <<rep, srch, adv>>

Successor(agent_id, move) ==
  /\ call.copies = <<>>
  /\ agent_id \in AgentIds(game)
  /\ \E s \in {successor_object(call, call.self, agent_id, move)} :
       /\ call' = Returned_objects(s, <<s.obj>>)
       /\ game' = View(s.heap, call.self)
  /\ UNCHANGED <<rep, srch, adv>>

Successors(agent_id, order) ==
  /\ call.copies = <<>>
  /\ agent_id \in AgentIds(game)
  /\ game.agents[agent_id] # None
  /\ \E s \in {successors_objects(call, call.self, agent_id,
                 SelectSeq(order, LAMBDA m : m \in legal_moves_id(game, agent_id)),
                 1, <<>>)} :
       /\ call' = Returned_objects(s, s.objs)
       /\ game' = View(s.heap, call.self)
  /\ UNCHANGED <<rep, srch, adv>>

\* a method brings the k-th returned object to the state gs
OnCopy(k, gs) ==
  /\ call.n < MaxOps
  /\ \E r \in {Mutated(call, call.copies[k], gs)} :
       /\ call' = [call EXCEPT !.heap = r.heap, !.copies[k] = r.obj,
                               !.n = @ + 1]
       /\ game' = View(r.heap, call.self)
  /\ UNCHANGED <<rep, srch, adv>>

CopyApplyMove(k, agent_id, given) ==
  /\ k \in DOMAIN call.copies
  /\ agent_id \in AgentIds(game)
  /\ OnCopy(k, apply_move(View(call.heap, call.copies[k]), agent_id, given).state)

CopyTick(k) ==
  /\ k \in DOMAIN call.copies
  /\ OnCopy(k, tick(View(call.heap, call.copies[k])))

CopyKill(k, agent_id) ==
  /\ k \in DOMAIN call.copies
  /\ agent_id \in AgentIds(game)
  /\ OnCopy(k, kill(View(call.heap, call.copies[k]), agent_id))

CopyDestroy(k, agent_id) ==
  /\ k \in DOMAIN call.copies
  /\ agent_id \in AgentIds(game)
  /\ OnCopy(k, destroy(View(call.heap, call.copies[k]), agent_id))

NextCopy ==
  \/ Copy
  \/ \E agent_id \in {0, 1}, move \in MoveSet : Successor(agent_id, move)
  \/ \E agent_id \in {0, 1}, order \in Orders : Successors(agent_id, order)
  \/ \E k \in 1..Len(Move), agent_id \in {0, 1}, given \in MoveSet \cup {NoMove} :
       CopyApplyMove(k, agent_id, given)
  \/ \E k \in 1..Len(Move) : CopyTick(k)
  \/ \E k \in 1..Len(Move), agent_id \in {0, 1} : CopyKill(k, agent_id)
  \/ \E k \in 1..Len(Move), agent_id \in {0, 1} : CopyDestroy(k, agent_id)

SpecCopy == InitCopy /\ [][NextCopy]_vars

(***************************************************************************)
(* C15: after copy, successor or successors, and after any calls of        *)
(* apply_move, tick, kill and destroy on the Gamestates they returned, the *)
(* Gamestate they were called on shows the positions, start positions,     *)
(* facings, timers, statics, score and turn counter it showed before.      *)
(***************************************************************************)
C15_CopyIsIndependent ==
  /\ game = View(call.heap, call.self)
  /\ game.agents = call.pre.agents
  /\ game.starts = call.pre.starts
  /\ game.facings = call.pre.facings
  /\ game.timers = call.pre.timers
  /\ game.statics = call.pre.statics
  /\ game.score = call.pre.score
  /\ game.tick = call.pre.tick

\* successors returned several Gamestates, and calls on one of them have
\* changed its positions, timers, statics, score and turn counter
C15_Witness ==
  /\ Len(call.copies) > 2
  /\ call.n = MaxOps
  /\ \E k \in DOMAIN call.copies :
       LET gs == View(call.heap, call.copies[k])
       IN /\ gs.agents # game.agents
          /\ gs.timers # game.timers
          /\ gs.statics # game.statics
          /\ gs.score # game.score
          /\ gs.tick # game.tick

(***************************************************************************)
(* pathcost of PositionSearchRepresentation.  A cost function is a Python  *)
(* function of a Vector and has a value for a Vector outside the layout    *)
(* too: call.cost names the function, rep.cost_fn gives its values on the  *)
(* cells, and CostTwice its value on any Vector, counted in halves because *)
(* 2 ** -1 is a half.                                                      *)
(***************************************************************************)
MaxPath == 3

\* lambda x: 1 is the function of kind "row" with k = 1
CostNames ==
  {[kind |-> "stayleft", y |-> 0, k |-> 1]}
    \cup {[kind |-> "row", y |-> y, k |-> k] :
            y \in 1..MaxY, k \in {0, 1, HeavyCost}}

\* the values of the cost function on the cells of the layout
CostValues(f) ==
  IF f.kind = "stayleft" THEN StayLeftCost ELSE RowCost(f.y, f.k)

\* twice the value of the cost function at the Vector v
CostTwice(f, v) ==
  IF f.kind = "stayleft" THEN 2 ^ (v[1] + 1)
  ELSE IF v[2] = f.y THEN 2 * f.k ELSE 2

RECURSIVE standard_pathcost(_, _, _, _, _)
\* the loop of standard_pathcost from the position `at` on, with `cost`
\* counted so far; the value is twice the cost, or Inf
standard_pathcost(path, at, w, f, cost) ==
  IF path = <<>> THEN cost
  ELSE LET direction == Head(path)
           to == VAdd(at, vector(direction))
       IN IF IndicatorGet(w, to) THEN Inf
          ELSE standard_pathcost(Tail(path), to, w, f,
                                 cost + CostTwice(f, vector(direction)))

\* PositionSearchRepresentation.pathcost
pathcost(r, f, path) == standard_pathcost(path, r.start, r.walls, f, 0)

Paths == UNION {[1..n -> {no_stop[i] : i \in 1..Len(no_stop)}] : n \in 0..MaxPath}

InitPath ==
  /\ \E f \in CostNames :
       /\ rep \in Representations({DefaultGoal}, {CostValues(f)})
       /\ call = [done |-> FALSE, cost |-> f, path |-> <<>>, value |-> 0]
  /\ srch = Idle
  /\ game = NoGame
  /\ adv = NoAgent

Pathcost(path) ==
  /\ ~call.done
  /\ call' = [call EXCEPT !.done = TRUE, !.path = path,
                          !.value = pathcost(rep, call.cost, path)]
  /\ UNCHANGED <<rep, srch, game, adv>>

NextPath == \E path \in Paths : Pathcost(path)

SpecPath == InitPath /\ [][NextPath]_vars

RECURSIVE Charged(_, _, _)
\* the cost successors() charges for the moves of the path, taken one after
\* the other from the cell c
Charged(r, c, path) ==
  IF path = <<>> THEN 0
  ELSE LET succ == successors(r, c)
           i == CHOOSE i \in 1..Len(succ) : succ[i].actions = <<Head(path)>>
       IN succ[i].cost + Charged(r, succ[i].state, Tail(path))

(***************************************************************************)
(* C18: pathcost of a list of moves that passes through no wall is the sum *)
(* of the cost function at the cells the moves lead to, which is the cost  *)
(* successors() charges for the moves, and pathcost is infinite iff the    *)
(* list of moves passes through a wall.                                    *)
(***************************************************************************)
C18_PathcostIsChargedCost ==
  call.done =>
    /\ WallFree(rep, call.path) =>
         /\ call.value = 2 * AccumulatedCost(rep, call.path)
         /\ call.value = 2 * Charged(rep, rep.start, call.path)
    /\ call.value = Inf <=> ~WallFree(rep, call.path)

(***************************************************************************)
(* CornersSearchRepresentation and corners_heuristic of ass3.py.  A state  *)
(* is a position and corners_tuple: for each corner of the list            *)
(* list(self.corners), whether it was visited.  corners is a frozenset, so *)
(* the order of the list is any order, the same in every call.             *)
(***************************************************************************)
\* left, bottom = 1, 1 and right, top = gstate.shape - 2
CornerSet ==
  {Vector(1, 1), Vector(1, MaxY), Vector(MaxX, 1), Vector(MaxX, MaxY)}

\* list(self.corners)
CornerLists ==
  {l \in [1..Cardinality(CornerSet) -> CornerSet] :
     \A i, j \in DOMAIN l : l[i] = l[j] => i = j}

\* CornersSearchRepresentation.start
corners_start(r) ==
  [position |-> r.start, corners_tuple |-> [n \in DOMAIN r.corners |-> FALSE]]

\* CornersSearchRepresentation.is_goal
corners_is_goal(state) ==
  \A n \in DOMAIN state.corners_tuple : state.corners_tuple[n]

\* CornersSearchRepresentation.successors
corners_successors(r, state) ==
  LET moves == SelectSeq(no_stop,
                 LAMBDA m : ~IndicatorGet(r.walls, VAdd(state.position, vector(m))))
  IN [i \in 1..Len(moves) |->
        LET new_vector == VAdd(state.position, vector(moves[i]))
        IN [state |-> [position |-> new_vector,
                       corners_tuple |->
                         [n \in DOMAIN state.corners_tuple |->
                            IF r.corners[n] = new_vector THEN TRUE
                            ELSE state.corners_tuple[n]]],
            actions |-> <<moves[i]>>,
            cost |-> 1]]

RECURSIVE corners_closest(_, _, _, _)
\* the loop that looks for num_closest, from num_corner on
corners_closest(future_corners_visited, distance_to_corners, num_corner, num_closest) ==
  IF num_corner > Len(distance_to_corners) THEN num_closest
  ELSE LET first == IF future_corners_visited[num_closest] THEN num_corner
                    ELSE num_closest
           second == IF /\ ~future_corners_visited[num_corner]
                        /\ distance_to_corners[num_corner]
                             < distance_to_corners[first]
                     THEN num_corner ELSE first
       IN corners_closest(future_corners_visited, distance_to_corners,
                          num_corner + 1, second)

RECURSIVE corners_loop(_, _, _, _, _)
\* the passes i, i + 1, ... of the outer loop of corners_heuristic
corners_loop(corners, i, result, future_position, future_corners_visited) ==
  IF i > Len(corners) THEN result
  ELSE LET distance_to_corners ==
             [n \in DOMAIN future_corners_visited |->
                manhattan_distance(future_position, corners[n])]
           num_closest == corners_closest(future_corners_visited,
                                          distance_to_corners, 1, 1)
       IN IF ~future_corners_visited[num_closest]
          THEN corners_loop(corners, i + 1,
                            result + distance_to_corners[num_closest],
                            corners[num_closest],
                            [future_corners_visited EXCEPT ![num_closest] = TRUE])
          ELSE result

corners_heuristic(state, representation) ==
  corners_loop(representation.corners, 1, 0, state.position,
               state.corners_tuple)

\* the search is at the start state of a game in some layout
InitCorners ==
  /\ rep \in {r \in {[start |-> s, walls |-> Indicator(w), corners |-> l] :
                       s \in Inner, w \in WallSets, l \in CornerLists} :
                ~r.walls[r.start]}
  /\ call = [state |-> corners_start(rep),
             value |-> corners_heuristic(corners_start(rep), rep)]
  /\ srch = Idle
  /\ game = NoGame
  /\ adv = NoAgent

\* the search goes on to a successor and asks for its heuristic value
CornersStep(i) ==
  /\ i \in DOMAIN corners_successors(rep, call.state)
  /\ \E s \in {corners_successors(rep, call.state)[i].state} :
       call' = [state |-> s, value |-> corners_heuristic(s, rep)]
  /\ UNCHANGED <<rep, srch, game, adv>>

NextCorners == \E i \in 1..Len(no_stop) : CornersStep(i)

SpecCorners == InitCorners /\ [][NextCorners]_vars

RECURSIVE CornersLayers(_, _, _)
\* the least number of moves after which one of the states `seen`, reached
\* in n moves, becomes a goal state; -1 if none does
CornersLayers(r, seen, n) ==
  IF \E s \in seen : corners_is_goal(s) THEN n
  ELSE LET next == seen \cup
                     UNION {{corners_successors(r, s)[i].state :
                               i \in DOMAIN corners_successors(r, s)} :
                            s \in seen}
       IN IF next = seen THEN -1 ELSE CornersLayers(r, next, n + 1)

\* the least number of moves from the state to a goal state
CornersDist(r, state) == CornersLayers(r, {state}, 0)

(***************************************************************************)
(* C19: in every state of a search in CornersSearchRepresentation, the     *)
(* value of corners_heuristic is at most the least number of moves from    *)
(* the state to a state in which every corner was visited.                 *)
(***************************************************************************)
C19_CornersAdmissible ==
  CornersDist(rep, call.state) >= 0 =>
    call.value <= CornersDist(rep, call.state)

(***************************************************************************)
(* AllDotSearchRepresentation of search.py and dots_heuristic of ass3.py.  *)
(* A state is the position of pacman and the set of the dots not yet       *)
(* eaten.                                                                  *)
(***************************************************************************)
\* AllDotSearchRepresentation.is_goal
alldot_is_goal(state) == state.dots = {}

\* AllDotSearchRepresentation.successors
alldot_successors(r, state) ==
  LET moves == SelectSeq(no_stop,
                 LAMBDA m : ~IndicatorGet(r.walls, VAdd(state.vector, vector(m))))
  IN [i \in 1..Len(moves) |->
        LET new_vector == VAdd(state.vector, vector(moves[i]))
        IN [state |-> [vector |-> new_vector,
                       dots |-> state.dots \ {new_vector}],
            actions |-> <<moves[i]>>,
            cost |-> 1]]

\* the order of the tuples (distance, dot)
DistanceLess(a, b) == a[1] < b[1] \/ (a[1] = b[1] /\ VecLess(a[2], b[2]))

RECURSIVE SortReverse(_)
\* list.sort(reverse=True) of the tuples of a set
SortReverse(tuples) ==
  IF tuples = {} THEN <<>>
  ELSE LET top == CHOOSE t \in tuples : \A u \in tuples \ {t} : DistanceLess(u, t)
       IN <<top>> \o SortReverse(tuples \ {top})

dots_heuristic(state, representation) ==
  LET position == state.vector
      distance_list ==
        SortReverse({<<manhattan_distance(position, x), x>> : x \in state.dots})
  IN IF Len(distance_list) > 2
     THEN distance_list[3][1]
          + manhattan_distance(distance_list[3][2], distance_list[2][2])
          + manhattan_distance(distance_list[2][2], distance_list[1][2])
     ELSE 0

\* the search is at the start state of a game in some layout: the dots are
\* on cells that are no wall and not on the cell of pacman
InitAllDots ==
  /\ rep \in {r \in {[start |-> [vector |-> s, dots |-> d],
                      walls |-> Indicator(w)] :
                       s \in Inner, d \in SUBSET Inner, w \in WallSets} :
                /\ ~r.walls[r.start.vector]
                /\ r.start.vector \notin r.start.dots
                /\ \A x \in r.start.dots : ~r.walls[x]}
  /\ call = [state |-> rep.start, value |-> dots_heuristic(rep.start, rep)]
  /\ srch = Idle
  /\ game = NoGame
  /\ adv = NoAgent

\* the search goes on to a successor and asks for its heuristic value
AllDotsStep(i) ==
  /\ i \in DOMAIN alldot_successors(rep, call.state)
  /\ \E s \in {alldot_successors(rep, call.state)[i].state} :
       call' = [state |-> s, value |-> dots_heuristic(s, rep)]
  /\ UNCHANGED <<rep, srch, game, adv>>

NextAllDots == \E i \in 1..Len(no_stop) : AllDotsStep(i)

SpecAllDots == InitAllDots /\ [][NextAllDots]_vars

RECURSIVE AllDotsLayers(_, _, _)
\* the least number of moves after which one of the states `seen`, reached
\* in n moves, becomes a state without dots; -1 if none does
AllDotsLayers(r, seen, n) ==
  IF \E s \in seen : alldot_is_goal(s) THEN n
  ELSE LET next == seen \cup
                     UNION {{alldot_successors(r, s)[i].state :
                               i \in DOMAIN alldot_successors(r, s)} :
                            s \in seen}
       IN IF next = seen THEN -1 ELSE AllDotsLayers(r, next, n + 1)

\* the least number of moves from the state to a state without dots
AllDotsDist(r, state) == AllDotsLayers(r, {state}, 0)

(***************************************************************************)
(* C20: in every state of a search in AllDotSearchRepresentation, the      *)
(* value of dots_heuristic is at most the least number of moves from the   *)
(* position of the state that pass over all the dots of the state.         *)
(***************************************************************************)
C20_DotsAdmissible ==
  AllDotsDist(rep, call.state) >= 0 =>
    call.value <= AllDotsDist(rep, call.state)

\* the last call was a move of pacman that killed pacman
PacmanKilledByMove ==
  /\ call.done
  /\ call.agent_id = PACMAN_ID
  /\ call.pre.agents[PACMAN_ID] # None
  /\ game.agents[PACMAN_ID] = None

(***************************************************************************)
(* C29: a move of pacman that kills pacman leaves the statics and the      *)
(* timers of the ghosts as they were and changes the score by              *)
(* SCORE_TICK_PENALTY + SCORE_DIE_PENALTY, also when the cell pacman moved *)
(* to holds a dot or a pellet.                                             *)
(***************************************************************************)
C29_KilledCollectsNothing ==
  PacmanKilledByMove =>
    /\ game.statics = call.pre.statics
    /\ game.timers = call.pre.timers
    /\ game.score = call.pre.score + SCORE_TICK_PENALTY + SCORE_DIE_PENALTY

(***************************************************************************)
(* C30: when apply_move raises the error of a move into a wall, the        *)
(* positions, facings, timers, statics and score are the same as before    *)
(* the call.                                                               *)
(***************************************************************************)
C30_FailedMoveUnchanged ==
  (call.done /\ call.raised) =>
    /\ game.agents = call.pre.agents
    /\ game.facings = call.pre.facings
    /\ game.timers = call.pre.timers
    /\ game.statics = call.pre.statics
    /\ game.score = call.pre.score

(***************************************************************************)
(* C30 as amended: when apply_move raises the error of a move into a wall, *)
(* the statics and the positions, facings and timers of the other agents   *)
(* are the same as before the call; the mover stands on the wall cell and  *)
(* faces the way of the move, its timer is one less if it was not 0, and   *)
(* the score is lower by the penalties of the turn and of dying if the     *)
(* mover is pacman and the same if it is a ghost.                          *)
(***************************************************************************)
C30_FailedMoveChangesMover ==
  (call.done /\ call.raised) =>
    LET a == call.agent_id
        pre == call.pre
    IN /\ game.statics = pre.statics
       /\ game.starts = pre.starts
       /\ \A i \in AgentIds(pre) \ {a} :
            /\ game.agents[i] = pre.agents[i]
            /\ game.facings[i] = pre.facings[i]
            /\ game.timers[i] = pre.timers[i]
       /\ game.agents[a] = GivenDest
       /\ game.statics[GivenDest] = "wall"
       /\ game.facings[a] = call.move
       /\ game.timers[a] = (IF pre.timers[a] = 0 THEN 0 ELSE pre.timers[a] - 1)
       /\ game.score = pre.score
                       + (IF a = PACMAN_ID
                          THEN SCORE_TICK_PENALTY + SCORE_DIE_PENALTY ELSE 0)

\* pacman was moved into a wall: the call raised, pacman is on the wall and
\* the score holds the two penalties
C30_Witness ==
  /\ call.done
  /\ call.raised
  /\ call.agent_id = PACMAN_ID
  /\ game.agents[PACMAN_ID] = GivenDest
  /\ game.agents[PACMAN_ID] # call.pre.agents[PACMAN_ID]
  /\ game.score = call.pre.score + SCORE_TICK_PENALTY + SCORE_DIE_PENALTY

(***************************************************************************)
(* Any calls of tick, kill, destroy and apply_move in a row on a game of   *)
(* pacman and one ghost, apply_move with the moves legal_moves_id gives.   *)
(* call.layout is the statics the game began with.                         *)
(***************************************************************************)
MaxCalls == 3

InitOps ==
  /\ game \in {WithoutLast(s) : s \in UNION {GameStates(w) : w \in GameWallSets}}
  /\ call = [n |-> 0, layout |-> game.statics, op |-> "none", agent_id |-> 0]
  /\ rep = NoRep
  /\ srch = Idle
  /\ adv = NoAgent

\* the call record after the method op was called for the agent
Called(op, agent_id) ==
  [call EXCEPT !.n = @ + 1, !.op = op, !.agent_id = agent_id]

OpsApplyMove(agent_id, move) ==
  /\ call.n < MaxCalls
  /\ agent_id \in AgentIds(game)
  /\ game.agents[agent_id] # None
  /\ move \in legal_moves_id(game, agent_id)
  /\ game' = apply_move(game, agent_id, move).state
  /\ call' = Called("apply_move", agent_id)
  /\ UNCHANGED <<rep, srch, adv>>

OpsTick ==
  /\ call.n < MaxCalls
  /\ game' = tick(game)
  /\ call' = Called("tick", 0)
  /\ UNCHANGED <<rep, srch, adv>>

OpsKill(agent_id) ==
  /\ call.n < MaxCalls
  /\ agent_id \in AgentIds(game)
  /\ game' = kill(game, agent_id)
  /\ call' = Called("kill", agent_id)
  /\ UNCHANGED <<rep, srch, adv>>

OpsDestroy(agent_id) ==
  /\ call.n < MaxCalls
  /\ agent_id \in AgentIds(game)
  /\ game' = destroy(game, agent_id)
  /\ call' = Called("destroy", agent_id)
  /\ UNCHANGED <<rep, srch, adv>>

NextOps ==
  \/ \E agent_id \in {0, 1}, move \in MoveSet : OpsApplyMove(agent_id, move)
  \/ OpsTick
  \/ \E agent_id \in {0, 1} : OpsKill(agent_id)
  \/ \E agent_id \in {0, 1} : OpsDestroy(agent_id)

SpecOps == InitOps /\ [][NextOps]_vars

(***************************************************************************)
(* C23: after any calls of tick, kill, destroy and apply_move with legal   *)
(* moves, no agent in play is on a wall cell, and the wall cells are the   *)
(* wall cells of the layout the game began with.                           *)
(***************************************************************************)
C23_NoAgentOnWall ==
  /\ \A i \in AgentIds(game) :
       game.agents[i] # None => game.statics[game.agents[i]] # "wall"
  /\ \A c \in Coords : game.statics[c] = "wall" <=> call.layout[c] = "wall"

\* a ghost that had left its start cell was killed and stands on its start
\* cell again, after a layout with an inner wall
C23_Witness ==
  /\ call.n = MaxCalls
  /\ call.op = "kill"
  /\ call.agent_id = 1
  /\ game.agents[1] = game.starts[1]
  /\ game.facings[1] # "stop"
  /\ \E c \in Inner : game.statics[c] = "wall"

(***************************************************************************)
(* C25: a win is final in run_game: once win holds of the state of the     *)
(* game, no later step of run_game, the tick() that ends the iteration     *)
(* included, makes loss hold or changes the score.                         *)
(***************************************************************************)
C25_WinIsFinal ==
  [][win(game) => (~loss(game') /\ game'.score = game.score)]_vars

(***************************************************************************)
(* C26: over a run of run_game SCORE_DIE_PENALTY is added at most once:    *)
(* once pacman is absent no later step changes the score, and no single    *)
(* step takes more from the score than the penalty of one turn and the     *)
(* penalty of one death.                                                   *)
(***************************************************************************)
C26_DiePenaltyOnce ==
  [][/\ loss(game) => game'.score = game.score
     /\ game'.score >= game.score + SCORE_TICK_PENALTY + SCORE_DIE_PENALTY]_vars

(***************************************************************************)
(* Array (pacman/array.py): a grid of values with two caches, one of the   *)
(* IndicatorArrays and one of the lists that indicate and list have        *)
(* computed, each by value.  `game` holds the fields of one Array, `call`  *)
(* the last call of the caller and the object it returned.  An             *)
(* IndicatorArray is the value it indicates and the grid of booleans that  *)
(* its __init__ computed; its field _lst is the list of the Array that     *)
(* made it and is read by neither __getitem__ nor list.                    *)
(***************************************************************************)
ArrayX == 2

ArrayY == 2

ArrayValues == {"wall", "dot", "empty"}

ArrayCells == (0..(ArrayX - 1)) \X (0..(ArrayY - 1))

\* no entry of a cache
NoEntry == [cached |-> FALSE]

\* Array.__init__: the grid and two empty caches
Array(lst) ==
  [array |-> lst,
   cache_indicate |-> [v \in ArrayValues |-> NoEntry],
   cache_list |-> [v \in ArrayValues |-> NoEntry]]

\* IndicatorArray._full_indicators
full_indicators(lst, value) == [c \in DOMAIN lst |-> lst[c] = value]

\* IndicatorArray.__init__
IndicatorArray(lst, value) ==
  [cached |-> TRUE, value |-> value, array |-> full_indicators(lst, value)]

\* Array.indicate: the Array and the IndicatorArray returned
Array_indicate(a, value) ==
  LET filled == IF a.cache_indicate[value] = NoEntry
                THEN [a EXCEPT !.cache_indicate[value] =
                                  IndicatorArray(a.array, value)]
                ELSE a
  IN [self |-> filled, result |-> filled.cache_indicate[value]]

\* itertools.product(*map(range, self.shape)): the cells, first by x
product(shape) ==
  [i \in 1..(shape[1] * shape[2]) |->
     Vector((i - 1) \div shape[2], (i - 1) % shape[2])]

\* Array.list: the Array and the list returned
Array_list(a, value) ==
  LET holds(c) == a.array[c] = value
      filled == IF a.cache_list[value] = NoEntry
                THEN [a EXCEPT !.cache_list[value] =
                        [cached |-> TRUE,
                         list |-> SelectSeq(product(<<ArrayX, ArrayY>>), holds)]]
                ELSE a
  IN [self |-> filled, result |-> filled.cache_list[value].list]

\* Array.__getitem__ of the grid of an IndicatorArray
Indicator_getitem(ind, item) ==
  IF item \in DOMAIN ind.array THEN ind.array[item] ELSE FALSE

\* a __setitem__ that leaves the caches as they are
Array_setitemKeep(a, key, value) == [a EXCEPT !.array[key] = value]

\* Array.__setitem__
Array_setitem(a, key, value) ==
  [a EXCEPT !.cache_indicate = [v \in ArrayValues |-> NoEntry],
            !.cache_list = [v \in ArrayValues |-> NoEntry],
            !.array[key] = value]

InitArray ==
  /\ game \in {Array(lst) : lst \in [ArrayCells -> ArrayValues]}
  /\ call = [op |-> "init", value |-> "empty", key |-> Vector(0, 0),
             result |-> NoEntry]
  /\ rep = NoRep
  /\ srch = Idle
  /\ adv = NoAgent

\* the caller sets a cell
SetItem(key, value) ==
  /\ game' = Array_setitem(game, key, value)
  /\ call' = [call EXCEPT !.op = "setitem", !.value = value, !.key = key]
  /\ UNCHANGED <<rep, srch, adv>>

\* the caller asks for the list of a value
List(value) ==
  /\ \E r \in {Array_list(game, value)} :
       /\ game' = r.self
       /\ call' = [call EXCEPT !.op = "list", !.value = value,
                               !.result = [list |-> r.result]]
  /\ UNCHANGED <<rep, srch, adv>>

\* the caller asks for the indicator of a value
Indicate(value) ==
  /\ \E r \in {Array_indicate(game, value)} :
       /\ game' = r.self
       /\ call' = [call EXCEPT !.op = "indicate", !.value = value,
                               !.result = r.result]
  /\ UNCHANGED <<rep, srch, adv>>

NextArray ==
  \/ \E key \in ArrayCells, value \in ArrayValues : SetItem(key, value)
  \/ \E value \in ArrayValues : List(value)
  \/ \E value \in ArrayValues : Indicate(value)

SpecArray == InitArray /\ [][NextArray]_vars

\* the cells of the grid that now hold the value
NowEqual(value) == {c \in ArrayCells : game.array[c] = value}

(***************************************************************************)
(* C24: whatever the calls of __setitem__, list and indicate before it, a  *)
(* call of list(v) returns exactly the cells that now hold v, each once,   *)
(* and the indicator that indicate(v) returns is true at a cell iff the    *)
(* cell now holds v.                                                       *)
(***************************************************************************)
C24_CachesCoherent ==
  /\ call.op = "list" =>
       /\ {call.result.list[i] : i \in 1..Len(call.result.list)}
            = NowEqual(call.value)
       /\ Len(call.result.list) = Cardinality(NowEqual(call.value))
  /\ call.op = "indicate" =>
       \A c \in ArrayCells :
         Indicator_getitem(call.result, c) <=> c \in NowEqual(call.value)

\* list(v) has answered after a __setitem__ that put v into a cell, while
\* the caches hold the indicator of v and the list of another value
C24_Witness ==
  /\ call.op = "list"
  /\ call.key \in NowEqual(call.value)
  /\ call.result.list # <<call.key>>
  /\ game.cache_indicate[call.value] # NoEntry
  /\ \E v \in ArrayValues \ {call.value} : game.cache_list[v] # NoEntry

(***************************************************************************)
(* AnyDotSearchRepresentation (ass3.py): a PositionSearchRepresentation    *)
(* whose goal test reads the field dots, the IndicatorArray that           *)
(* gstate.dots returned when the representation was built.  `game` is the  *)
(* Gamestate of ClosestDotSearchAgent.prepare, `rep` the representation    *)
(* that path_to_closest_dot built last; prepare applies the moves of the   *)
(* path to the Gamestate.                                                  *)
(***************************************************************************)
AnyDotSearchRepresentation(gs) ==
  [start |-> pacman(gs),
   walls |-> IndicatorArray(gs.statics, "wall"),
   dots |-> IndicatorArray(gs.statics, "dot")]

\* AnyDotSearchRepresentation.is_goal
anydot_is_goal(r, state) == Indicator_getitem(r.dots, state) = TRUE

InitAnyDot ==
  /\ game \in {gs \in {WithoutLast(WithoutLast(s)) : s \in GameStates(Border)} :
                 dots_list(gs) # {}}
  /\ rep = AnyDotSearchRepresentation(game)
  /\ call = [n |-> 0]
  /\ srch = Idle
  /\ adv = NoAgent

\* path_to_closest_dot: a representation of the Gamestate as it is now
PathToClosestDot ==
  /\ dots_list(game) # {}
  /\ rep # AnyDotSearchRepresentation(game)
  /\ rep' = AnyDotSearchRepresentation(game)
  /\ UNCHANGED <<game, call, srch, adv>>

\* gstate.apply_move(self.id, move) of prepare, for a legal move
AnyDotMove(move) ==
  /\ call.n < MaxMoves
  /\ move \in legal_moves_vector(game, game.agents[PACMAN_ID])
  /\ game' = apply_move(game, PACMAN_ID, move).state
  /\ call' = [call EXCEPT !.n = @ + 1]
  /\ UNCHANGED <<rep, srch, adv>>

NextAnyDot == PathToClosestDot \/ \E move \in MoveSet : AnyDotMove(move)

SpecAnyDot == InitAnyDot /\ [][NextAnyDot]_vars

(***************************************************************************)
(* C22: the goal test of AnyDotSearchRepresentation follows the state of   *)
(* the game: after apply_move has changed the Gamestate it was built from, *)
(* is_goal(cell) is true iff the cell holds a dot in the present state.    *)
(***************************************************************************)
C22_GoalTestIsLive ==
  \A c \in Coords : anydot_is_goal(rep, c) <=> game.statics[c] = "dot"

(***************************************************************************)
(* A call of CrossroadSearchRepresentation.successors, step by step: `rep` *)
(* is the representation, `call` the call of successors on a cell of the   *)
(* maze that is no wall.                                                   *)
(***************************************************************************)
CrossroadRepresentations(goals) ==
  {[start |-> r.start, goal |-> r.goal, cost_fn |-> r.cost_fn,
    walls |-> r.walls, crossroad |-> TRUE] :
     r \in Representations(goals, {UnitCost})}

InitCrossroad ==
  /\ rep \in CrossroadRepresentations({DefaultGoal})
  /\ call \in {crossroad_enter(rep, state) :
                 state \in {c \in Inner : ~rep.walls[c]}}
  /\ srch = Idle
  /\ game = NoGame
  /\ adv = NoAgent

CrossroadStep ==
  /\ ~crossroad_halted(call)
  /\ call' = crossroad_step(rep, call)
  /\ UNCHANGED <<rep, srch, game, adv>>

NextCrossroad == CrossroadStep

SpecCrossroad == InitCrossroad /\ [][NextCrossroad]_vars

\* the moves open at a cell other than the reverse of the move `last`
NonReverse(cell, last) ==
  {m \in MoveSet \ {"stop", opposite(last)} :
     ~rep.walls[VAdd(cell, vector(m))]}

(***************************************************************************)
(* C21: every successor (position, moves, cost) of successors(state): the  *)
(* moves are not empty and begin with a move legal at state, the cost is   *)
(* the number of moves, the moves lead from state through cells that are   *)
(* no walls to position, every cell before the last has exactly one legal  *)
(* move that is not the reverse, and position has more than one or none.   *)
(***************************************************************************)
C21_SuccessorsFollowCorridors ==
  \A k \in 1..Len(call.successors) :
    LET s == call.successors[k]
        n == Len(s.actions)
        cells == Positions(call.state, s.actions)
    IN /\ n >= 1
       /\ ~rep.walls[VAdd(call.state, vector(s.actions[1]))]
       /\ s.actions[1] # "stop"
       /\ s.cost = n
       /\ \A i \in 1..n : cells[i] \in Coords /\ ~rep.walls[cells[i]]
       /\ cells[n] = s.state
       /\ \A i \in 1..(n - 1) :
            Cardinality(NonReverse(cells[i], s.actions[i])) = 1
       /\ Cardinality(NonReverse(s.state, s.actions[n])) # 1

\* successors has returned two successors, one of them a corridor of three
\* moves or more that ends at a branch point
C21_Witness ==
  /\ call.pc = "done"
  /\ Len(call.successors) >= 2
  /\ \E k \in 1..Len(call.successors) :
       LET s == call.successors[k]
       IN /\ Len(s.actions) >= 3
          /\ Cardinality(NonReverse(s.state, s.actions[Len(s.actions)])) > 1

(***************************************************************************)
(* C27: successors(state) terminates on every cell of every maze: its      *)
(* while loop is never again at a cell it has been at with the same last   *)
(* move.  What the loop does next depends on the cell and the last move    *)
(* alone, so a loop that is there again goes round for ever.               *)
(***************************************************************************)
C27_SuccessorsTerminates ==
  call.pc = "while" =>
    LET cells == Positions(call.state, call.path)
    IN \A i, j \in 1..Len(call.path) :
         (cells[i] = cells[j] /\ call.path[i] = call.path[j]) => i = j

(***************************************************************************)
(* The search functions on a CrossroadSearchRepresentation and on the      *)
(* PositionSearchRepresentation of the same maze, start and goal.  The     *)
(* mazes are those on which successors returns for every cell; the goal is *)
(* any cell that can be reached from the start.                            *)
(***************************************************************************)
\* the PositionSearchRepresentation of the maze of r
PositionOf(r) ==
  [start |-> r.start, goal |-> r.goal, cost_fn |-> r.cost_fn,
   walls |-> r.walls]

\* successors returns on every cell of the maze of r
SuccessorsReturn(r) ==
  \A state \in {c \in Inner : ~r.walls[c]} :
    crossroad_run(r, crossroad_enter(r, state)).pc = "done"

InitCollapse ==
  /\ rep \in {r \in CrossroadRepresentations(Inner) :
               SuccessorsReturn(r) /\ Reachable(r)}
  /\ call = [done |-> FALSE, method |-> "none",
             position |-> NoResult, crossroad |-> NoResult]
  /\ srch = Idle
  /\ game = NoGame
  /\ adv = NoAgent

\* the search function called on either representation
Search(method) ==
  /\ ~call.done
  /\ call' = [done |-> TRUE, method |-> method,
              position |->
                RunLoop(PositionOf(rep),
                        Enter(PositionOf(rep), method, "null")).result,
              crossroad |-> RunLoop(rep, Enter(rep, method, "null")).result]
  /\ UNCHANGED <<rep, srch, game, adv>>

NextCollapse == \E method \in {"breadthfirst", "uniformcost"} : Search(method)

SpecCollapse == InitCollapse /\ [][NextCollapse]_vars

(***************************************************************************)
(* C28: following corridors loses no solution and no cost: breadthfirst    *)
(* and uniformcost return a path on the CrossroadSearchRepresentation      *)
(* whenever they do on the PositionSearchRepresentation, a goal in the     *)
(* middle of a corridor included, and the paths of uniformcost cost the    *)
(* same.                                                                   *)
(***************************************************************************)
C28_CollapsePreservesPaths ==
  call.done =>
    /\ call.position.found => call.crossroad.found
    /\ (call.method = "uniformcost" /\ call.position.found
          /\ call.crossroad.found) =>
         AccumulatedCost(rep, call.crossroad.path)
           = AccumulatedCost(rep, call.position.path)

====
